---- MODULE Spec2Model ----
(***************************************************************************)
(* Verification model of the safety-governed intervention layer of the     *)
(* crowd-safety simulator: FailSafeMechanisms (the safety governor),       *)
(* InterventionRiskAssessment (risk classifier), AutoExecutionEngine (the  *)
(* intervention gate), the spawn-rate and capacity controllers, and the    *)
(* HTTP handlers of routes/simulation.py that drive them.                  *)
(*                                                                         *)
(* Conventions.  Simulation time is counted in whole time units.  Density  *)
(* is carried in tenths of a person per square metre (35 = 3.5 p/m2).      *)
(* A spawn-rate multiplier is carried in percent (50 = 0.5).  An optional  *)
(* value is NONE or Some(x).  Python objects shared by reference (an       *)
(* InterventionRecord held by the history, the active dict and the         *)
(* rollback stack) live in the store `records`, and the collections hold   *)
(* their ids; intervention ids are unique, as the docstrings require.      *)
(***************************************************************************)
EXTENDS Integers, Sequences, FiniteSets, TLC

VARIABLES
    now,                   \* Simulator.current_time
    safety_constraints,    \* FailSafeMechanisms.safety_constraints
    records,               \* the InterventionRecord objects, by intervention_id
    intervention_history,  \* FailSafeMechanisms.intervention_history (ids)
    active_interventions,  \* keys of FailSafeMechanisms.active_interventions
    rollback_stack,        \* FailSafeMechanisms.rollback_stack (ids)
    violations,            \* FailSafeMechanisms.violations
    spawn_states,          \* SpawnRateController.node_states
    cap_states,            \* CapacityController.node_states
    edge_states,           \* CapacityController.edge_states
    node_data,             \* DigitalTwin.node_data: block state and occupancy
    spawn_queue,           \* Simulator.spawn_queue
    agents,                \* Simulator.agents, by agent id
    stats,                 \* Simulator.stats
    trigger_system,        \* the TriggerSystem object
    snapshot,              \* the last value of DigitalTwin.get_state_snapshot
    execution_settings,    \* AutoExecutionEngine.execution_settings[sim]
    pending_actions,       \* AutoExecutionEngine.pending_actions[sim]
    audit_log,             \* AutoExecutionEngine.audit_log[sim]
    applied_actions,       \* the calls of DensityRLTrainer.apply_action, in order
    request,               \* the recommendation and context under test
    ret                    \* what the last call returned to its caller

vars == <<now, safety_constraints, records, intervention_history,
          active_interventions, rollback_stack, violations, spawn_states,
          cap_states, edge_states, execution_settings, pending_actions,
          audit_log,
          applied_actions, request, ret, node_data, spawn_queue, agents,
          stats, trigger_system, snapshot>>

govVars == <<safety_constraints, records, intervention_history,
             active_interventions, rollback_stack, violations>>
resVars == <<spawn_states, cap_states, edge_states>>
simVars == <<node_data, spawn_queue, agents, stats, trigger_system,
            snapshot>>
gateVars == <<execution_settings, pending_actions, audit_log, request>>

\* Python's None for an optional value; Some(x) is a value that is present
NONE == <<>>

\* A missing string value (a key that is absent, or None)
NoStr == "None"

Min(a, b) == IF a <= b THEN a ELSE b

Max(a, b) == IF a >= b THEN a ELSE b
Some(x) == <<x>>

Nodes == {"gate_a", "gate_b"}

----------------------------------------------------------------------------
(* Bounds of the model *)

MaxTime == 6
MaxInterventions == 2
MaxViolations == 1

StepCounts == {2}

----------------------------------------------------------------------------
(* Small helpers *)

Last(s) == s[Len(s)]

RECURSIVE Log2Floor(_)
Log2Floor(n) == IF n < 2 THEN 0 ELSE 1 + Log2Floor(n \div 2)

RECURSIVE Pow2(_)
Pow2(k) == IF k = 0 THEN 1 ELSE 2 * Pow2(k - 1)

RECURSIVE Pow2Mod60(_)
Pow2Mod60(k) == IF k = 0 THEN 1 ELSE (2 * Pow2Mod60(k - 1)) % 60

Abs(x) == IF x < 0 THEN 0 - x ELSE x

\* A Python float that is a whole number plus at most one unit in the last
\* place: fl = int + ulps * ulp(int), ulps in {-1, 0, 1}.
Float(n) == [int |-> n, ulps |-> 0]

\* fl >= m for a whole number m
FloatGE(fl, m) == fl.int > m \/ (fl.int = m /\ fl.ulps >= 0)

----------------------------------------------------------------------------
(* FailSafeMechanisms *)

DefaultConstraints ==
    [max_interventions_per_minute |-> 10,
     min_interval_seconds |-> 5,
     max_active_interventions |-> 5,
     enable_rollback |-> TRUE,
     enable_manual_override |-> TRUE]

HistoryCap == 1000

\* len(recent_interventions) / 60.0 * 60.0 in IEEE-754 double arithmetic.
\* The quotient n/60 is rounded to 53 bits; with k the scaling that puts it
\* in [2^52, 2^53), the rounding error is d/60 units where
\* r = (n * 2^k) mod 60 and d = -r (r < 30) or 60 - r (r > 30).  The exact
\* product is then n + d / 2^k, which rounds back to n unless |d| exceeds
\* half a unit in the last place of n.
FrequencyPerMinute(n) ==
    IF n = 0 THEN Float(0)
    ELSE LET en   == Log2Floor(n)
             gap  == IF n * 32 >= 60 * Pow2(en) THEN 5 ELSE 6
             k    == 52 - (en - gap)
             r    == (n * Pow2Mod60(k)) % 60
             d    == IF r = 0 THEN 0 ELSE IF r < 30 THEN 0 - r ELSE 60 - r
             half == Pow2(gap - 1)
             down == IF n = Pow2(en) THEN half \div 2 ELSE half
         IN  IF d > half THEN [int |-> n, ulps |-> 1]
             ELSE IF d < 0 /\ Abs(d) > down THEN [int |-> n, ulps |-> 0 - 1]
             ELSE Float(n)

\* recent_interventions of check_safety_constraints: the ids in the history
\* whose applied_at is at or after current_time - 60
RecentInterventions(t) ==
    {i \in 1..Len(intervention_history) :
        records[intervention_history[i]].applied_at >= t - 60}

NoViolation ==
    [violation_type |-> "none", intervention_id |-> 0, timestamp |-> 0,
     actual_value |-> Float(0), limit_value |-> 0]

\* (mutant) the measured value and the limit change places
Violation_Swapped(type, id, t, actual, limit) ==
    [violation_type |-> type, intervention_id |-> id, timestamp |-> t,
     actual_value |-> Float(limit), limit_value |-> actual.int]

\* SafetyViolation(...)
Violation(type, id, t, actual, limit) ==
    [violation_type |-> type, intervention_id |-> id, timestamp |-> t,
     actual_value |-> actual, limit_value |-> limit]

\* (mutant) the override flag is not consulted
ManualBypass_IgnoresFlag(is_manual) == is_manual

ManualBypass(is_manual) ==
    is_manual /\ safety_constraints.enable_manual_override

\* (mutant) the interval is measured from the first record, not the last
MinIntervalViolated_FromFirst(t) ==
    /\ Len(intervention_history) > 0
    /\ t - records[intervention_history[1]].applied_at
          < safety_constraints.min_interval_seconds

MinIntervalViolated(t) ==
    /\ Len(intervention_history) > 0
    /\ t - records[Last(intervention_history)].applied_at
          < safety_constraints.min_interval_seconds

\* (mutant) the cap is compared with > instead of >=
MaxActiveViolated_OffByOne ==
    Cardinality(active_interventions)
        > safety_constraints.max_active_interventions

MaxActiveViolated ==
    Cardinality(active_interventions)
        >= safety_constraints.max_active_interventions

MaxFrequencyViolated(t) ==
    /\ Len(intervention_history) > 0
    /\ FloatGE(FrequencyPerMinute(Cardinality(RecentInterventions(t))),
               safety_constraints.max_interventions_per_minute)

\* check_safety_constraints: the returned (allowed, reason) and the
\* SafetyViolation it appends when it blocks
check_safety_constraints(id, t, is_manual) ==
    IF ManualBypass(is_manual)
    THEN [allowed |-> TRUE, violation |-> NoViolation]
    ELSE IF MinIntervalViolated(t)
    THEN [allowed |-> FALSE,
          violation |-> Violation("min_interval", id, t,
              Float(t - records[Last(intervention_history)].applied_at),
              safety_constraints.min_interval_seconds)]
    ELSE IF MaxActiveViolated
    THEN [allowed |-> FALSE,
          violation |-> Violation("max_active", id, t,
              Float(Cardinality(active_interventions)),
              safety_constraints.max_active_interventions)]
    ELSE IF MaxFrequencyViolated(t)
    THEN [allowed |-> FALSE,
          violation |-> Violation("max_frequency", id, t,
              FrequencyPerMinute(Cardinality(RecentInterventions(t))),
              safety_constraints.max_interventions_per_minute)]
    ELSE [allowed |-> TRUE, violation |-> NoViolation]

NextId == Len(records) + 1

Ret(op, ok, id, manual, kind) ==
    [op |-> op, ok |-> ok, id |-> id, manual |-> manual, kind |-> kind,
     action |-> "none", risk |-> "none"]

\* A caller proposes an intervention at the current simulation time.
CheckSafetyConstraints(is_manual) ==
    LET out == check_safety_constraints(NextId, now, is_manual)
    IN  /\ out.allowed \/ Len(violations) < MaxViolations
        /\ violations' = IF out.allowed THEN violations
                         ELSE Append(violations, out.violation)
        /\ ret' = Ret("check", out.allowed, NextId, is_manual,
                      out.violation.violation_type)
        /\ UNCHANGED <<now, safety_constraints, records, intervention_history,
                       active_interventions, rollback_stack, resVars, simVars,
                       gateVars, applied_actions>>

Truncate(s, n) == IF Len(s) > n THEN SubSeq(s, Len(s) - n + 1, Len(s)) ELSE s

\* The pre-state a caller hands to record_intervention as rollback_data
RollbackData(node) ==
    [rate_multiplier |-> spawn_states[node].rate_multiplier,
     current_area_m2 |-> cap_states[node].current_area_m2,
     current_capacity |-> cap_states[node].current_capacity,
     is_blocked |-> cap_states[node].is_blocked]

record_intervention(id, node, t) ==
    [intervention_id |-> id, node_id |-> node, applied_at |-> t,
     rollback_data |-> RollbackData(node),
     can_rollback |-> safety_constraints.enable_rollback,
     rolled_back |-> FALSE, rolled_back_at |-> NONE]

RecordIntervention(node) ==
    /\ records' = Append(records, record_intervention(NextId, node, now))
    /\ intervention_history' =
          Truncate(Append(intervention_history, NextId), HistoryCap)
    /\ active_interventions' = active_interventions \cup {NextId}
    /\ rollback_stack' = IF safety_constraints.enable_rollback
                         THEN Append(rollback_stack, NextId)
                         ELSE rollback_stack
    /\ violations' = Truncate(violations, 100)
    /\ ret' = Ret("record", TRUE, NextId, FALSE, "none")
    /\ UNCHANGED <<now, safety_constraints, resVars, simVars, gateVars, applied_actions>>

\* record_intervention used as its docstring requires, "after safety checks
\* passed": the caller records only when a non-manual check at the same
\* simulation time allows the intervention
CheckedRecordIntervention(node) ==
    /\ check_safety_constraints(NextId, now, FALSE).allowed
    /\ RecordIntervention(node)

\* The bounds of the model on the records made and on the clock
RoomToRecord == Len(records) < MaxInterventions
RoomToStep(n) == now + n <= MaxTime

CompleteIntervention(id) ==
    /\ id \in active_interventions
    /\ active_interventions' = active_interventions \ {id}
    /\ ret' = Ret("complete", TRUE, id, FALSE, "none")
    /\ UNCHANGED <<now, safety_constraints, records, intervention_history,
                   rollback_stack, violations, resVars, simVars, gateVars, applied_actions>>

\* The record rollback_intervention picks: searching the stack from its top,
\* the first record with the requested id that is not rolled back, or, with
\* no id (a falsy id, here 0), the first that is not rolled back and can be
\* rolled back.  The target is 0 when there is none.
RollbackCandidates(idarg) ==
    {i \in 1..Len(rollback_stack) :
        LET r == records[rollback_stack[i]]
        IN  IF idarg = 0
            THEN ~r.rolled_back /\ r.can_rollback
            ELSE r.intervention_id = idarg /\ ~r.rolled_back}

MaxOf(S) == CHOOSE x \in S : \A y \in S : y <= x

\* (mutant) the stack is searched from its bottom: the oldest record is taken
rollback_target_Oldest(idarg) ==
    IF ~safety_constraints.enable_rollback THEN 0
    ELSE IF RollbackCandidates(idarg) = {} THEN 0
    ELSE rollback_stack[CHOOSE x \in RollbackCandidates(idarg) :
                            \A y \in RollbackCandidates(idarg) : x <= y]

rollback_target(idarg) ==
    IF ~safety_constraints.enable_rollback THEN 0
    ELSE IF RollbackCandidates(idarg) = {} THEN 0
    ELSE rollback_stack[MaxOf(RollbackCandidates(idarg))]

rollback_intervention(idarg) ==
    LET id == rollback_target(idarg)
    IN  /\ records' = IF id = 0 THEN records
                      ELSE [records EXCEPT ![id].rolled_back = TRUE,
                                           ![id].rolled_back_at = Some(now)]
        /\ active_interventions' = active_interventions \ {id}
        /\ ret' = Ret("rollback", id # 0, id, FALSE,
                      IF idarg = 0 THEN "most_recent" ELSE "by_id")

\* POST /simulation/{id}/safety/rollback
RollbackIntervention(idarg) ==
    /\ rollback_intervention(idarg)
    /\ UNCHANGED <<now, safety_constraints, intervention_history,
                   rollback_stack, violations, resVars, simVars, gateVars, applied_actions>>

Opt(new, old) == IF new = NONE THEN old ELSE new[1]

\* POST /simulation/{id}/safety/constraints
ConfigureConstraints(mpm, mis, mai, erb, emo) ==
    /\ safety_constraints' =
          [max_interventions_per_minute |->
               Opt(mpm, safety_constraints.max_interventions_per_minute),
           min_interval_seconds |->
               Opt(mis, safety_constraints.min_interval_seconds),
           max_active_interventions |->
               Opt(mai, safety_constraints.max_active_interventions),
           enable_rollback |-> Opt(erb, safety_constraints.enable_rollback),
           enable_manual_override |->
               Opt(emo, safety_constraints.enable_manual_override)]
    /\ safety_constraints' # safety_constraints
    /\ ret' = Ret("configure", TRUE, 0, FALSE, "none")
    /\ UNCHANGED <<now, records, intervention_history, active_interventions,
                   rollback_stack, violations, resVars, simVars, gateVars, applied_actions>>

----------------------------------------------------------------------------
(* DigitalTwin: the graph of areas and the path search *)

\* The areas of the twin: the two gates, and a hall and a side passage that
\* both lead to the exit.  Every path is bidirectional (add_path default).
TwinNodes == Nodes \cup {"hall", "side", "exit"}

Edges ==
    {{"gate_a", "hall"}, {"hall", "exit"}, {"gate_a", "gate_b"},
     {"gate_b", "side"}, {"side", "exit"}}

Neighbors(n) == {m \in TwinNodes : {n, m} \in Edges}

\* node_data[n]["area_m2"], in tenths of a square metre
AreaTenths(n) == IF n = "gate_a" THEN 4 ELSE 10

\* Simulator.__init__: the counters of stats
InitStats == [total_agents_spawned |-> 0, agents_reached_goal |-> 0]

\* add_area: the fields of node_data the simulation reads and writes; the
\* area is in tenths of a square metre
add_area(area_m2) ==
    [area_m2 |-> area_m2, current_count |-> 0, density |-> 0,
     is_blocked |-> FALSE, block_expires |-> 0]

\* The node_data of the twin as the scenario builds it
InitTwin == [n \in TwinNodes |-> add_area(AreaTenths(n))]

\* (mutant) update_node_count that stores the count and leaves the density
update_node_count_Stale(data, count) == [data EXCEPT !.current_count = count]

\* DigitalTwin.update_node_count on the entry of one zone: density =
\* count / area if area > 0 else 0, in tenths of a person per square metre
update_node_count(data, count) ==
    [data EXCEPT !.current_count = count,
                 !.density = IF data.area_m2 > 0
                             THEN (count * 100) \div data.area_m2
                             ELSE 0]

\* node_data[n]["density"]
Density(nd, n) == nd[n].density

Range(seq) == {seq[i] : i \in 1..Len(seq)}

\* Breadth-first search over the allowed nodes: the paths of the frontier
\* all have the same length, and the first length at which one of them
\* ends at the goal is the length of the shortest path
RECURSIVE SearchFrom(_, _, _)
SearchFrom(frontier, end, allowed) ==
    IF frontier = {} THEN <<>>
    ELSE IF \E p \in frontier : Last(p) = end
    THEN CHOOSE p \in frontier : Last(p) = end
    ELSE SearchFrom(
            UNION {{Append(p, m) :
                       m \in (Neighbors(Last(p)) \cap allowed) \ Range(p)} :
                   p \in frontier},
            end, allowed)

\* DigitalTwin.get_shortest_path: the shortest path in the graph without
\* the blocked nodes other than start and end; <<>> stands for None
get_shortest_path(nd, start, end) ==
    SearchFrom({<<start>>}, end,
               TwinNodes \ ({n \in TwinNodes : nd[n].is_blocked}
                            \ {start, end}))

\* DigitalTwin.get_shortest_path raises: nx.shortest_path raises
\* NodeNotFound for a start or end that is not a node of the graph, and
\* the function catches NetworkXNoPath only
get_shortest_path_raises(start, end) ==
    start \notin TwinNodes \/ end \notin TwinNodes

----------------------------------------------------------------------------
(* Agent and Simulator *)

\* Simulator.spawn_agent: Agent(...) with its initial path, if there is one
spawn_agent(nd, start_node, goal_node) ==
    [current_node |-> start_node, goal_node |-> goal_node,
     path |-> get_shortest_path(nd, start_node, goal_node),
     path_index |-> 0, has_reached_goal |-> FALSE, in_sim |-> TRUE,
     blocked_until_time |-> 0, panic_level |-> 0,
     panic_influenced_until |-> 0, applied_panic |-> 0]

\* Agent.get_next_node ("None" when there is none)
get_next_node(a) ==
    IF a.path = <<>> \/ a.has_reached_goal THEN NoStr
    ELSE IF a.path_index + 1 < Len(a.path) THEN a.path[a.path_index + 2]
    ELSE NoStr

\* Agent.move_to_next_node when the draw against the speed succeeds
Moved(a) ==
    LET next_node == get_next_node(a)
    IN  [a EXCEPT !.current_node = next_node,
                  !.path_index = @ + 1,
                  !.has_reached_goal = (next_node = a.goal_node)]

\* Thresholds of an agent, in tenths of a person per square metre
PreferredPersonalSpace == 20
PanicThreshold == 40

\* The panic level 1.0; panic levels are in units of 0.00001
PanicUnit == 100000

\* update_panic: the seconds a raised panic persists before it decays
PanicHold == 10

\* Agent.panic_decay_rate per second, and the level below which the agent
\* is calm again
PanicDecayRate == 2000
CalmLevel == 5000

\* Agent.block_until, with timestamps in tenths of a second
block_until(a, timestamp) ==
    IF timestamp > a.blocked_until_time
    THEN [a EXCEPT !.blocked_until_time = timestamp]
    ELSE a

\* (mutant) update_panic that takes the new level whatever the present one
update_panic_Overwrite(a, new_level, current_time) ==
    [a EXCEPT !.panic_level = new_level,
              !.panic_influenced_until = current_time + PanicHold,
              !.applied_panic = new_level]

\* Agent.update_panic: _apply_panic_effects derives speed, patience and
\* panic threshold from the level it is called at, kept in applied_panic
update_panic(a, new_level, current_time) ==
    IF new_level > a.panic_level
    THEN [a EXCEPT !.panic_level = Min(PanicUnit, new_level),
                   !.panic_influenced_until = current_time + PanicHold,
                   !.applied_panic = Min(PanicUnit, new_level)]
    ELSE a

\* Agent.decay_panic: _restore_normal_behavior puts speed, patience and
\* panic threshold back to their baseline (applied_panic 0)
decay_panic(a, current_time, dt) ==
    IF current_time > a.panic_influenced_until /\ a.panic_level > 0
    THEN LET level == Max(0, a.panic_level - PanicDecayRate * dt)
         IN  IF level < CalmLevel
             THEN [a EXCEPT !.panic_level = 0, !.applied_panic = 0]
             ELSE [a EXCEPT !.panic_level = level]
    ELSE a

\* Agent.panic_threshold after _apply_panic_effects, in units of 0.000001:
\* max(2.0, 4.0 * (1.0 - panic * 0.3))
panic_threshold(a) ==
    Max(2000000, 100000 * PanicThreshold - 12 * a.applied_panic)

\* 1 - Agent.patience of a normal agent after _apply_panic_effects, in
\* units of 0.0000001: patience is max(0.1, 0.7 * (1.0 - panic * 0.5))
impatience(a) ==
    10000000 - Max(1000000, 7000000 - 35 * a.applied_panic)

\* Agent.should_wait(current_density, current_time), its possible results:
\* the wait is forced while the block lasts and left to random.random()
\* at or above the preferred personal space, where the wait probability is
\* (density / panic_threshold) * (1 - patience)
should_wait(a, d, current_time) ==
    IF a.blocked_until_time > current_time * 10 THEN {TRUE}
    ELSE IF d < PreferredPersonalSpace THEN {FALSE}
    ELSE IF d * impatience(a) >= panic_threshold(a) * 100 THEN {TRUE}
    ELSE {TRUE, FALSE}

\* Agent.update(dt, current_time)
update(a, dt, current_time) == decay_panic(a, current_time, dt)

\* Agent.needs_rerouting: the density is above the panic threshold
needs_rerouting(a, d) == d * 100000 > panic_threshold(a)

\* The part of Simulator.step that handles one agent that has not reached
\* its goal.  It calls should_wait(current_density) and update(time_step),
\* so both see the default current_time 0.0.  An agent that waits is left
\* as it is; otherwise it takes a new path when the density is above its
\* panic threshold and the search gives a different one, moves or not as
\* random.random() decides, and is updated.
AgentOutcomes(a, nd) ==
    LET d == Density(nd, a.current_node)
        new_path == get_shortest_path(nd, a.current_node, a.goal_node)
        rerouted == IF needs_rerouting(a, d) /\ new_path # <<>>
                       /\ new_path # a.path
                    THEN [a EXCEPT !.path = new_path, !.path_index = 0]
                    ELSE a
        goes == IF get_next_node(rerouted) = NoStr THEN {rerouted}
                ELSE {rerouted, Moved(rerouted)}
        waits == should_wait(a, d, 0)
    IN  (IF TRUE \in waits THEN {a} ELSE {})
        \cup (IF FALSE \in waits THEN {update(g, 1, 0) : g \in goes}
              ELSE {})

\* (mutant) an agent at its goal is counted and stays in the simulation
Retire_Keep(a) == a

\* Simulator.step: del self.agents[agent_id]; the model keeps the record
\* of the agent and marks it as gone
Retire(a) == [a EXCEPT !.in_sim = FALSE]

\* The agents the loop of Simulator.step finds at their goal
AtGoal(ags) ==
    {i \in 1..Len(ags) : ags[i].in_sim /\ ags[i].has_reached_goal}

\* The agents after the movement phase, from agent i on: an agent that had
\* reached its goal leaves the simulation, every other agent takes one of
\* its outcomes
RECURSIVE MoveAgents(_, _, _)
MoveAgents(ags, nd, i) ==
    IF i > Len(ags) THEN {<<>>}
    ELSE LET choices ==
                IF ~ags[i].in_sim THEN {ags[i]}
                ELSE IF ags[i].has_reached_goal
                THEN {Retire(ags[i])}
                ELSE AgentOutcomes(ags[i], nd)
         IN  {<<c>> \o rest :
                 c \in choices, rest \in MoveAgents(ags, nd, i + 1)}

\* process_spawn_queue: the events popped from the front of the queue while
\* the front event is due
RECURSIVE DueCount(_, _)
DueCount(queue, t) ==
    IF queue # <<>> /\ queue[1].time <= t
    THEN 1 + DueCount(Tail(queue), t)
    ELSE 0

\* process_spawn_queue: every due event becomes an agent, in queue order
process_spawn_queue(sim) ==
    LET k == DueCount(sim.queue, sim.time)
    IN  [sim EXCEPT
            !.queue = SubSeq(@, k + 1, Len(@)),
            !.stats.total_agents_spawned = @ + k,
            !.agents = @ \o [i \in 1..k |->
                               spawn_agent(sim.nd, sim.queue[i].start,
                                           sim.queue[i].goal)]]

\* update_node_occupancy
update_node_occupancy(sim) ==
    [sim EXCEPT
        !.nd = [n \in TwinNodes |->
                  update_node_count(
                      @[n],
                      Cardinality({i \in 1..Len(sim.agents) :
                                      /\ sim.agents[i].in_sim
                                      /\ sim.agents[i].current_node = n}))]]

\* Simulator.step: the simulator states one tick can lead to
Tick(sim) ==
    UNION {{[s EXCEPT !.agents = ags, !.time = @ + 1,
                      !.stats.agents_reached_goal =
                          @ + Cardinality(AtGoal(s.agents))] :
               ags \in MoveAgents(s.agents, s.nd, 1)} :
           s \in {update_node_occupancy(p) :
                     p \in {process_spawn_queue(sim)}}}

RECURSIVE Ticks(_, _)
Ticks(sim, n) ==
    IF n = 0 THEN {sim}
    ELSE UNION {Ticks(s, n - 1) : s \in Tick(sim)}

\* The Simulator object
Sim ==
    [time |-> now, queue |-> spawn_queue, agents |-> agents,
     nd |-> node_data, stats |-> stats]

\* POST /simulation/step with steps = n
Step(n) ==
    /\ \E s \in Ticks(Sim, n) :
          /\ now' = s.time
          /\ stats' = s.stats
          /\ spawn_queue' = s.queue
          /\ agents' = s.agents
          /\ node_data' = s.nd
    /\ ret' = Ret("step", TRUE, 0, FALSE, "none")
    /\ UNCHANGED <<govVars, resVars, gateVars, applied_actions,
                   trigger_system, snapshot>>

\* POST /simulation/{id}/execute-action with action_type CLOSE_NODE: the
\* zone is marked blocked with its expiry, and every agent whose path holds
\* the zone takes the new shortest path if there is one
CloseNode(target_node, duration) ==
    LET nd == [node_data EXCEPT
                  ![target_node].is_blocked = TRUE,
                  ![target_node].block_expires = now + duration]
        Rerouted(a) ==
            LET alt_path == get_shortest_path(nd, a.current_node, a.goal_node)
            IN  IF /\ a.in_sim
                   /\ \/ get_next_node(a) = target_node
                      \/ target_node \in Range(a.path)
                   /\ alt_path # <<>>
                THEN [a EXCEPT !.path = alt_path, !.path_index = 0]
                ELSE a
    IN  /\ node_data' = nd
        /\ agents' = [i \in 1..Len(agents) |-> Rerouted(agents[i])]
        /\ ret' = Ret("execute_action", TRUE, 0, FALSE, target_node)
        /\ UNCHANGED <<now, govVars, resVars, spawn_queue, stats, gateVars,
                       applied_actions, trigger_system,
                       snapshot>>

\* The agents an intervention on a node targets, in the order of the
\* agents dict: those not at their goal that are at the node or about to
\* enter it
TargetAgents(node_id) ==
    SelectSeq([i \in 1..Len(agents) |-> i],
              LAMBDA i : /\ agents[i].in_sim
                         /\ ~agents[i].has_reached_goal
                         /\ \/ agents[i].current_node = node_id
                            \/ get_next_node(agents[i]) = node_id)

\* The targets an action blocks, and for how many tenths of a second
BlockedShare(action, n) ==
    CASE action = "THROTTLE_25" -> n \div 4
      [] action = "THROTTLE_50" -> n \div 2
      [] action = "CLOSE_INFLOW" -> n
      [] OTHER -> 0

BlockTenths(action) ==
    CASE action = "THROTTLE_25" -> 15
      [] action = "THROTTLE_50" -> 25
      [] OTHER -> 50

\* CaseStudyManager._apply_action(sim, node_id, action, current_time = now):
\* REROUTE reads sim.digital_twin, which a Simulator does not have, and
\* raises before it changes anything
ApplyAction(node_id, action) ==
    LET targets == TargetAgents(node_id)
        blocked == {targets[k] : k \in 1..BlockedShare(action, Len(targets))}
    IN  /\ agents' =
              [i \in 1..Len(agents) |->
                  IF i \in blocked
                  THEN block_until(agents[i], now * 10 + BlockTenths(action))
                  ELSE agents[i]]
        /\ ret' = Ret("apply_action", action # "REROUTE", 0, FALSE, action)
        /\ UNCHANGED <<now, govVars, resVars, node_data, spawn_queue, stats,
                   trigger_system, snapshot,
                       gateVars, applied_actions>>

\* agent.update_panic(new_level, source_id, current_time = now) on the i-th
\* agent of the simulation
UpdatePanic(i, new_level) ==
    /\ i \in 1..Len(agents)
    /\ agents' = [agents EXCEPT ![i] = update_panic(@, new_level, now)]
    /\ ret' = Ret("update_panic", TRUE, i, FALSE, "none")
    /\ UNCHANGED <<now, govVars, resVars, node_data, spawn_queue, stats,
                   trigger_system, snapshot,
                   gateVars, applied_actions>>

\* agent.decay_panic(current_time = now, dt) on the i-th agent
DecayPanic(i, dt) ==
    /\ i \in 1..Len(agents)
    /\ agents' = [agents EXCEPT ![i] = decay_panic(@, now, dt)]
    /\ ret' = Ret("decay_panic", TRUE, i, FALSE, "none")
    /\ UNCHANGED <<now, govVars, resVars, node_data, spawn_queue, stats,
                   trigger_system, snapshot,
                   gateVars, applied_actions>>

----------------------------------------------------------------------------
(* TriggerSystem: panic in units of 0.00001, severity and base panic in
   percent *)

\* TRIGGER_BEHAVIORS[type]["base_panic"], in percent
base_panic(trigger_type) ==
    CASE trigger_type = "explosion" -> 90
      [] trigger_type = "gate_malfunction" -> 50
      [] trigger_type = "false_alarm" -> 70
      [] trigger_type = "weather" -> 40
      [] trigger_type = "infra_failure" -> 85
      [] trigger_type = "panic_cascade" -> 60

\* PanicPropagationConfig with the given max_propagation_depth:
\* spread_rate 0.3 in percent, min_panic_to_spread 0.1 in panic units
PanicPropagationConfig(depth) ==
    [spread_rate |-> 30, max_propagation_depth |-> depth,
     min_panic_to_spread |-> 10000]

\* TriggerSystem.__init__ with the default configuration; a level 0 in
\* _node_panic_levels stands for a zone without an entry
InitTriggerSystem ==
    [active_triggers |-> <<>>,
     propagation_config |-> PanicPropagationConfig(3),
     node_panic_levels |-> [n \in TwinNodes |-> 0]]

\* Trigger(...)
Trigger(trigger_type, time_seconds, affected_zones, severity, duration) ==
    [trigger_type |-> trigger_type, time_seconds |-> time_seconds,
     affected_zones |-> affected_zones, severity |-> severity,
     duration |-> duration]

\* TriggerSystem.get_active_triggers
get_active_triggers(ts, current_time) ==
    SelectSeq(ts.active_triggers,
              LAMBDA t : /\ t.time_seconds <= current_time
                         /\ current_time < t.time_seconds + t.duration)

\* graph.neighbors(n) as a list: the zones in the order they were added
NodeOrder == <<"gate_a", "gate_b", "hall", "side", "exit">>

NeighborSeq(n) == SelectSeq(NodeOrder, LAMBDA m : m \in Neighbors(n))

\* propagate_panic: the queue as the loop over trigger.affected_zones
\* leaves it, one entry (zone, depth 0, base panic) per affected zone that
\* is a zone of the twin
SeedQueue(zones, panic) ==
    [i \in 1..Len(SelectSeq(zones, LAMBDA z : z \in TwinNodes)) |->
        [node_id |-> SelectSeq(zones, LAMBDA z : z \in TwinNodes)[i],
         depth |-> 0, panic_level |-> panic]]

\* propagate_panic: depth > max_propagation_depth
TooDeep(cfg, depth) == depth > cfg.max_propagation_depth

\* propagate_panic: the while loop.  p holds the queue, the visited set,
\* effects["nodes_reached"], effects["panic_by_node"] (0 for a zone
\* without an entry), the levels of the trigger system and the agents.
RECURSIVE Spread(_, _, _)
Spread(p, cfg, current_time) ==
    IF p.queue = <<>> THEN p
    ELSE LET head == Head(p.queue)
             rest == [p EXCEPT !.queue = Tail(@)]
             new_panic == (head.panic_level * (100 - cfg.spread_rate)) \div 100
             fresh == SelectSeq(NeighborSeq(head.node_id),
                                LAMBDA m : m \notin p.visited
                                              /\ m # head.node_id)
         IN  IF \/ head.node_id \in p.visited
                \/ TooDeep(cfg, head.depth)
                \/ head.panic_level < cfg.min_panic_to_spread
             THEN Spread(rest, cfg, current_time)
             ELSE Spread(
                     [queue |-> rest.queue \o
                                   [i \in 1..Len(fresh) |->
                                       [node_id |-> fresh[i],
                                        depth |-> head.depth + 1,
                                        panic_level |-> new_panic]],
                      visited |-> p.visited \cup {head.node_id},
                      nodes_reached |-> Append(p.nodes_reached, head.node_id),
                      panic_by_node |->
                          [p.panic_by_node EXCEPT
                              ![head.node_id] = head.panic_level],
                      levels |->
                          [p.levels EXCEPT
                              ![head.node_id] = Max(@, head.panic_level)],
                      agents |->
                          [i \in 1..Len(p.agents) |->
                              IF /\ p.agents[i].in_sim
                                 /\ p.agents[i].current_node = head.node_id
                                 /\ ~p.agents[i].has_reached_goal
                              THEN update_panic(p.agents[i],
                                                head.panic_level,
                                                current_time)
                              ELSE p.agents[i]]],
                     cfg, current_time)

\* propagate_panic on a simulator that gives its twin as digital_twin:
\* base panic times severity, the affected zones recorded and queued, and
\* the loop
propagate_panic(ts, ags, trigger, current_time) ==
    LET panic == base_panic(trigger.trigger_type) * trigger.severity * 10
        seeds == SeedQueue(trigger.affected_zones, panic)
    IN  Spread([queue |-> seeds,
                visited |-> {},
                nodes_reached |-> <<>>,
                panic_by_node |-> [n \in TwinNodes |-> 0],
                levels |-> [n \in TwinNodes |->
                              IF \E i \in 1..Len(seeds) :
                                    seeds[i].node_id = n
                              THEN panic
                              ELSE ts.node_panic_levels[n]],
                agents |-> ags],
               ts.propagation_config, current_time)

\* TriggerSystem(propagation_config = PanicPropagationConfig(...)) in
\* place of the default one, before any trigger is created
Configure(depth) ==
    /\ trigger_system.active_triggers = <<>>
    /\ trigger_system' =
          [trigger_system EXCEPT
              !.propagation_config = PanicPropagationConfig(depth)]
    /\ ret' = Ret("configure", TRUE, depth, FALSE, "none")
    /\ UNCHANGED <<now, govVars, resVars, node_data, spawn_queue, agents,
                   stats, snapshot, gateVars, applied_actions>>

\* TriggerSystem.create_trigger: the trigger joins active_triggers; the
\* duration is the draw of random.uniform
CreateTrigger(trigger) ==
    /\ trigger_system' =
          [trigger_system EXCEPT !.active_triggers = Append(@, trigger)]
    /\ ret' = Ret("create_trigger", TRUE, 0, FALSE, trigger.trigger_type)
    /\ UNCHANGED <<now, govVars, resVars, node_data, spawn_queue, agents,
                   stats, snapshot, gateVars, applied_actions>>

\* trigger_system.propagate_panic(simulator, trigger, current_time = now)
\* for the k-th trigger.  has_digital_twin tells whether the simulator
\* object has an attribute digital_twin: Simulator has not (its twin is
\* self.twin), and then reading simulator.digital_twin raises
\* AttributeError before anything is changed.
PropagatePanic(k, has_digital_twin) ==
    /\ k \in 1..Len(trigger_system.active_triggers)
    /\ IF has_digital_twin
       THEN LET p == propagate_panic(trigger_system, agents,
                                     trigger_system.active_triggers[k], now)
            IN  /\ trigger_system' =
                      [trigger_system EXCEPT !.node_panic_levels = p.levels]
                /\ agents' = p.agents
                /\ ret' = [op |-> "propagate_panic", ok |-> TRUE, id |-> k,
                           nodes_reached |-> p.nodes_reached,
                           panic_by_node |-> p.panic_by_node]
       ELSE /\ ret' = [op |-> "propagate_panic", ok |-> FALSE, id |-> k,
                       nodes_reached |-> <<>>,
                       panic_by_node |-> [n \in TwinNodes |-> 0]]
            /\ UNCHANGED <<trigger_system, agents>>
    /\ UNCHANGED <<now, govVars, resVars, node_data, spawn_queue, stats,
                   snapshot, gateVars, applied_actions>>

----------------------------------------------------------------------------
(* SpawnRateController: rate multipliers in percent *)

Clamp(lo, hi, x) == IF x < lo THEN lo ELSE IF x > hi THEN hi ELSE x

\* set_spawn_rate: the multiplier is clamped to [0.0, 1.0]; a duration that
\* is None or 0 leaves no expiry
set_spawn_rate(state, rate_multiplier, duration, current_time) ==
    LET m == Clamp(0, 100, rate_multiplier)
    IN  [rate_multiplier |-> m,
         is_blocked |-> (m = 0),
         blocked_until |-> IF duration # NONE /\ duration[1] # 0
                           THEN Some(current_time + duration[1])
                           ELSE NONE]

\* POST /simulation/{id}/spawn-control
ControlSpawnRate(node_id, rate_multiplier, duration) ==
    /\ spawn_states' =
          [spawn_states EXCEPT
              ![node_id] = set_spawn_rate(@, rate_multiplier, duration, now)]
    /\ ret' = Ret("spawn_control", TRUE, 0, FALSE, "none")
    /\ UNCHANGED <<now, govVars, cap_states, edge_states, simVars, gateVars,
                   applied_actions>>

DefaultSpawnRate == 10

\* state.current_rate, in hundredths of an agent per second: every writer
\* of the multiplier sets it to base_rate * rate_multiplier
CurrentRate(state) == DefaultSpawnRate * state.rate_multiplier

\* The expiry test shared by update_time and get_effective_spawn_rate
Expire(state, current_time) ==
    IF state.blocked_until # NONE /\ current_time >= state.blocked_until[1]
    THEN [rate_multiplier |-> 100, is_blocked |-> FALSE,
          blocked_until |-> NONE]
    ELSE state

\* SpawnRateController.update_time
update_time(states, current_time) ==
    [n \in DOMAIN states |-> Expire(states[n], current_time)]

\* A caller sweeps the spawn controller at the current simulation time
SpawnUpdateTime ==
    /\ spawn_states' = update_time(spawn_states, now)
    /\ ret' = Ret("update_time", TRUE, 0, FALSE, "none")
    /\ UNCHANGED <<now, govVars, cap_states, edge_states, simVars, gateVars,
                   applied_actions>>

\* get_effective_spawn_rate: the rate returned is left in ret.id
GetEffectiveSpawnRate(node_id) ==
    /\ spawn_states' =
          [spawn_states EXCEPT ![node_id] = Expire(@, now)]
    /\ ret' = Ret("effective_rate", TRUE,
                  CurrentRate(spawn_states'[node_id]), FALSE, node_id)
    /\ UNCHANGED <<now, govVars, cap_states, edge_states, simVars, gateVars,
                   applied_actions>>

\* SpawnRateController.can_spawn, the first component of its result: the
\* override is expired first if its time has come
can_spawn(state, current_time) ==
    LET st == Expire(state, current_time)
    IN  ~(st.is_blocked \/ CurrentRate(st) = 0)

----------------------------------------------------------------------------
(* CapacityController: factors in percent *)

\* The registered edges
EdgeKeys == {<<"gate_a", "hall">>}

\* NodeCapacityState.max_expansion_factor, EdgeCapacityState.max_increase_factor
MaxExpansionFactor == 150
MaxIncreaseFactor == 200

\* The adjustments kept per zone or edge in the model
MaxAdjustments == 2

\* current_time + duration if duration else None
ExpiresAt(duration, current_time) ==
    IF duration # NONE /\ duration[1] # 0
    THEN Some(current_time + duration[1])
    ELSE NONE

CapacityChange(type, original, adjusted, applied_at, expires_at) ==
    [adjustment_type |-> type, original_value |-> original,
     adjusted_value |-> adjusted, applied_at |-> applied_at,
     expires_at |-> expires_at, is_active |-> TRUE]

\* expand_node_area returns True
CanExpand(expansion_factor) == Min(expansion_factor, MaxExpansionFactor) > 100

\* CapacityController.expand_node_area, on the state of the node
expand_node_area(state, expansion_factor, duration, current_time) ==
    LET factor == Min(expansion_factor, MaxExpansionFactor)
        new_area == (state.original_area_m2 * factor) \div 100
        new_capacity == (state.original_capacity * factor) \div 100
    IN  [state EXCEPT
            !.current_area_m2 = new_area,
            !.current_capacity = new_capacity,
            !.adjustments =
                Append(@, CapacityChange("expand_area",
                                         state.current_area_m2, new_area,
                                         current_time,
                                         ExpiresAt(duration, current_time)))]

\* increase_edge_flow returns True
CanIncrease(increase_factor) == Min(increase_factor, MaxIncreaseFactor) > 100

\* CapacityController.increase_edge_flow, on the state of the edge
increase_edge_flow(state, increase_factor, duration, current_time) ==
    LET factor == Min(increase_factor, MaxIncreaseFactor)
        new_capacity == (state.original_flow_capacity * factor) \div 100
    IN  [state EXCEPT
            !.current_flow_capacity = new_capacity,
            !.adjustments =
                Append(@, CapacityChange("increase_flow",
                                         state.current_flow_capacity,
                                         new_capacity, current_time,
                                         ExpiresAt(duration, current_time)))]

\* CapacityController.block_zone, on the state of the node: the recorded
\* original value is read after the capacity has been set to 0
block_zone(state, duration, current_time) ==
    [state EXCEPT
        !.is_blocked = TRUE,
        !.blocked_until = ExpiresAt(duration, current_time),
        !.current_capacity = 0,
        !.adjustments =
            Append(@, CapacityChange("block_zone", 0, 0, current_time,
                                     ExpiresAt(duration, current_time)))]

\* CapacityController.restore_node, on the state of the node
restore_node(state) ==
    [state EXCEPT !.current_area_m2 = state.original_area_m2,
                  !.current_capacity = state.original_capacity,
                  !.is_blocked = FALSE,
                  !.blocked_until = NONE]

\* CapacityController.restore_edge, on the state of the edge
restore_edge(state) ==
    [state EXCEPT !.current_flow_capacity = state.original_flow_capacity,
                  !.is_blocked = FALSE,
                  !.blocked_until = NONE]

\* adjustment.expires_at and current_time >= adjustment.expires_at
Expired(adjustment, current_time) ==
    /\ adjustment.expires_at # NONE
    /\ adjustment.expires_at[1] # 0
    /\ current_time >= adjustment.expires_at[1]

NoneActive(state) ==
    \A j \in 1..Len(state.adjustments) : ~state.adjustments[j].is_active

\* update_time, the loop over the adjustments of a node from the i-th on:
\* an expired adjustment is made inactive and, when no adjustment of the
\* node is active then, the node is restored
RECURSIVE SweepNode(_, _, _)
SweepNode(state, current_time, i) ==
    IF i > Len(state.adjustments) THEN state
    ELSE IF Expired(state.adjustments[i], current_time)
    THEN LET off == [state EXCEPT !.adjustments[i].is_active = FALSE]
         IN  SweepNode(IF NoneActive(off) THEN restore_node(off) ELSE off,
                       current_time, i + 1)
    ELSE SweepNode(state, current_time, i + 1)

RECURSIVE SweepEdge(_, _, _)
SweepEdge(state, current_time, i) ==
    IF i > Len(state.adjustments) THEN state
    ELSE IF Expired(state.adjustments[i], current_time)
    THEN LET off == [state EXCEPT !.adjustments[i].is_active = FALSE]
         IN  SweepEdge(IF NoneActive(off) THEN restore_edge(off) ELSE off,
                       current_time, i + 1)
    ELSE SweepEdge(state, current_time, i + 1)

BlockExpired(state, current_time) ==
    state.blocked_until # NONE /\ current_time >= state.blocked_until[1]

\* CapacityController.update_time, for one node: the expired block first,
\* then the adjustments
update_node(state, current_time) ==
    SweepNode(IF BlockExpired(state, current_time)
              THEN restore_node(state) ELSE state,
              current_time, 1)

\* CapacityController.update_time, for one edge
update_edge(state, current_time) ==
    SweepEdge(IF BlockExpired(state, current_time)
              THEN restore_edge(state) ELSE state,
              current_time, 1)

RoomToAdjust(state) == Len(state.adjustments) < MaxAdjustments

ExpandNodeArea(node_id, expansion_factor, duration) ==
    /\ RoomToAdjust(cap_states[node_id])
    /\ cap_states' =
          IF CanExpand(expansion_factor)
          THEN [cap_states EXCEPT
                   ![node_id] = expand_node_area(@, expansion_factor,
                                                 duration, now)]
          ELSE cap_states
    /\ ret' = Ret("expand_area", CanExpand(expansion_factor), 0, FALSE,
                  node_id)
    /\ UNCHANGED <<now, govVars, spawn_states, edge_states, simVars, gateVars,
                   applied_actions>>

IncreaseEdgeFlow(edge_key, increase_factor, duration) ==
    /\ RoomToAdjust(edge_states[edge_key])
    /\ edge_states' =
          IF CanIncrease(increase_factor)
          THEN [edge_states EXCEPT
                   ![edge_key] = increase_edge_flow(@, increase_factor,
                                                    duration, now)]
          ELSE edge_states
    /\ ret' = Ret("increase_flow", CanIncrease(increase_factor), 0, FALSE,
                  edge_key[1])
    /\ UNCHANGED <<now, govVars, spawn_states, cap_states, simVars, gateVars,
                   applied_actions>>

BlockZone(node_id, duration) ==
    /\ RoomToAdjust(cap_states[node_id])
    /\ cap_states' =
          [cap_states EXCEPT ![node_id] = block_zone(@, duration, now)]
    /\ ret' = Ret("block_zone", TRUE, 0, FALSE, node_id)
    /\ UNCHANGED <<now, govVars, spawn_states, edge_states, simVars, gateVars,
                   applied_actions>>

RestoreNode(node_id) ==
    /\ cap_states' = [cap_states EXCEPT ![node_id] = restore_node(@)]
    /\ ret' = Ret("restore", TRUE, 0, FALSE, node_id)
    /\ UNCHANGED <<now, govVars, spawn_states, edge_states, simVars, gateVars,
                   applied_actions>>

\* CapacityController.update_time(current_time = now)
CapUpdateTime ==
    /\ cap_states' = [n \in Nodes |-> update_node(cap_states[n], now)]
    /\ edge_states' = [k \in EdgeKeys |-> update_edge(edge_states[k], now)]
    /\ ret' = Ret("cap_update_time", TRUE, 0, FALSE, "none")
    /\ UNCHANGED <<now, govVars, spawn_states, simVars, gateVars,
                   applied_actions>>

----------------------------------------------------------------------------
(* InterventionRiskAssessment *)

LOW_DENSITY_THRESHOLD == 35
ExtremeDensity == 50

\* ACTION_RISK_MAP.get(action, RiskLevel.HIGH)
ACTION_RISK_MAP(action) ==
    CASE action = "THROTTLE_25" -> "LOW"
      [] action = "THROTTLE_50" -> "MEDIUM"
      [] action = "CLOSE_INFLOW" -> "HIGH"
      [] action = "REROUTE" -> "LOW"
      [] action = "NOOP" -> "LOW"
      [] OTHER -> "HIGH"

determine_throttle_level(ctx) ==
    IF ctx.priority = "CRITICAL" THEN "THROTTLE_50" ELSE "THROTTLE_25"

Risk_map_recommendation_action(recommendation_action, ctx) ==
    CASE recommendation_action = "CLOSE_TEMPORARILY" -> "CLOSE_INFLOW"
      [] recommendation_action = "REDUCE_FLOW" -> determine_throttle_level(ctx)
      [] recommendation_action = "REROUTE" -> "REROUTE"
      [] OTHER -> "NOOP"

\* assess_risk once the action to classify is fixed
RiskOfAction(action, ctx) ==
    IF ACTION_RISK_MAP(action) = "HIGH" THEN "HIGH"
    ELSE IF ctx.has_active_trigger THEN "HIGH"
    ELSE IF action = "REROUTE"
    THEN (IF ctx.density >= LOW_DENSITY_THRESHOLD THEN "MEDIUM" ELSE "LOW")
    ELSE IF action = "THROTTLE_25" THEN "LOW"
    ELSE IF action = "THROTTLE_50"
    THEN (IF ctx.density > ExtremeDensity THEN "HIGH" ELSE "MEDIUM")
    ELSE ACTION_RISK_MAP(action)

\* assess_risk(action, context, recommendation_action): a recommendation
\* action that is given replaces the action by the assessor's own mapping
assess_risk(action, ctx, recommendation_action) ==
    RiskOfAction(IF recommendation_action # NoStr
                 THEN Risk_map_recommendation_action(recommendation_action, ctx)
                 ELSE action,
                 ctx)

should_auto_execute(action, ctx, auto_execute_enabled) ==
    auto_execute_enabled /\ assess_risk(action, ctx, NoStr) = "LOW"

----------------------------------------------------------------------------
(* AutoExecutionEngine *)

MaxPendingActions == 10

\* AutoExecutionEngine._map_recommendation_action
Engine_map_recommendation_action(recommendation_action, rec) ==
    CASE recommendation_action = "CLOSE_TEMPORARILY" -> "CLOSE_INFLOW"
      [] recommendation_action = "REDUCE_FLOW" ->
            IF rec.priority = "WARNING" THEN "THROTTLE_25" ELSE "THROTTLE_50"
      [] recommendation_action = "REROUTE" -> "REROUTE"
      [] OTHER -> "NOOP"

\* assessment_context of process_recommendation: context.get(key, default)
AssessmentContext(rec, context, t) ==
    [node_id |-> rec.node_id,
     density |-> IF context.density = NONE THEN 0 ELSE context.density[1],
     priority |-> IF rec.priority = NoStr THEN "WARNING" ELSE rec.priority,
     has_active_trigger |->
        IF context.has_active_trigger = NONE THEN FALSE
        ELSE context.has_active_trigger[1],
     simulation_time |-> t]

\* (mutant) the queue takes one item more before it reports overflow
QueueFull_OneMore(pending) == Len(pending) > MaxPendingActions

\* len(self.pending_actions[simulation_id]) >= settings["max_pending_actions"]
QueueFull(pending) == Len(pending) >= MaxPendingActions

\* (mutant) the decision rests on the recorded risk level alone
AutoDecision_RiskOnly(should_auto, risk_level) == risk_level = "LOW"

\* if should_auto and risk_level == RiskLevel.LOW
AutoDecision(should_auto, risk_level) == should_auto /\ risk_level = "LOW"

AuditEntry(type, action_id, t) ==
    [type |-> type, action_id |-> action_id, time |-> t]

\* process_recommendation: the status returned, with the intervention it
\* names, and the pending queue and audit log it leaves
process_recommendation(settings, pending, audit, rec, context, t) ==
    LET intervention_action ==
            Engine_map_recommendation_action(rec.action, rec)
        ctx == AssessmentContext(rec, context, t)
        risk_level == assess_risk(intervention_action, ctx, rec.action)
        should_auto == should_auto_execute(intervention_action, ctx,
                                           settings.auto_execute_enabled)
        action_id == Len(pending) + 1
        item == [action_id |-> action_id, node_id |-> rec.node_id,
                 action |-> intervention_action,
                 recommendation_action |-> rec.action,
                 priority |-> ctx.priority, risk_level |-> risk_level,
                 context |-> ctx, created_at |-> t, status |-> "PENDING"]
        same(status) ==
            [status |-> status, action_id |-> 0,
             action |-> "none", risk_level |-> "none",
             pending |-> pending, audit |-> audit]
    IN  IF ~settings.auto_execute_enabled THEN same("REQUIRES_APPROVAL")
        ELSE IF rec.node_id \in settings.disabled_nodes
        THEN same("REQUIRES_APPROVAL")
        ELSE IF AutoDecision(should_auto, risk_level)
        THEN [status |-> "AUTO_EXECUTED", action_id |-> 0,
              action |-> intervention_action, risk_level |-> risk_level,
              pending |-> pending, audit |-> audit]
        ELSE IF QueueFull(pending) THEN same("QUEUE_FULL")
        ELSE [status |-> "PENDING", action_id |-> action_id,
              action |-> intervention_action, risk_level |-> risk_level,
              pending |-> Append(pending, item),
              audit |-> Append(audit,
                               AuditEntry("PENDING_ADDED", action_id, t))]

RetGate(op, ok, id, kind, action, risk) ==
    [op |-> op, ok |-> ok, id |-> id, manual |-> FALSE, kind |-> kind,
     action |-> action, risk |-> risk]

\* A caller hands one recommendation and its context to the gate
ProcessRecommendation(rec, context) ==
    LET out == process_recommendation(execution_settings, pending_actions,
                                      audit_log, rec, context, now)
    IN  /\ pending_actions' = out.pending
        /\ audit_log' = out.audit
        /\ ret' = RetGate("process", out.status = "AUTO_EXECUTED",
                          out.action_id, out.status, out.action,
                          out.risk_level)
        /\ UNCHANGED <<now, govVars, resVars, simVars, execution_settings, request,
                       applied_actions>>

\* AutoExecutionEngine.update_settings
update_settings(auto_execute_enabled, disabled_nodes) ==
    [auto_execute_enabled |->
        Opt(auto_execute_enabled, execution_settings.auto_execute_enabled),
     disabled_nodes |->
        Opt(disabled_nodes, execution_settings.disabled_nodes)]

UpdateSettings(auto_execute_enabled, disabled_nodes) ==
    /\ execution_settings' =
          update_settings(auto_execute_enabled, disabled_nodes)
    /\ execution_settings' # execution_settings
    /\ ret' = Ret("settings", TRUE, 0, FALSE, "none")
    /\ UNCHANGED <<now, govVars, resVars, simVars, pending_actions, audit_log,
                   request, applied_actions>>

----------------------------------------------------------------------------
(* The pending queue and the routes that decide its items *)

\* The position in the queue of the first item with this id whose status is
\* PENDING, or 0 (the loop of approve_action and reject_action)
RECURSIVE FindFrom(_, _, _, _)
FindFrom(pending, action_id, any_status, i) ==
    IF i > Len(pending) THEN 0
    ELSE IF /\ pending[i].action_id = action_id
            /\ (any_status \/ pending[i].status = "PENDING")
    THEN i
    ELSE FindFrom(pending, action_id, any_status, i + 1)

\* (mutant) the status of the item is not looked at
FindPending_AnyStatus(pending, action_id) ==
    FindFrom(pending, action_id, TRUE, 1)

FindPending(pending, action_id) == FindFrom(pending, action_id, FALSE, 1)

SetStatus(pending, i, status) ==
    [pending EXCEPT ![i] = [@ EXCEPT !.status = status]]

\* DensityRLTrainer.apply_action, as the intervention it commits
AppliedAction(node_id, action, t) ==
    [node |-> node_id, action |-> action, time |-> t]

\* POST pending-actions/{action_id}/approve.  approve_action marks the item
\* APPROVED and logs it; the route applies the intervention and marks the
\* item EXECUTED.  The next statement reads simulator.ai_actions, which
\* Simulator does not define, so the handler ends there with an
\* AttributeError: the ACTION_EXECUTED entry is not written.
ApprovePendingAction(action_id) ==
    LET i == FindPending(pending_actions, action_id)
    IN  IF i = 0
        THEN /\ ret' = RetGate("approve", FALSE, action_id, "not_found",
                               "none", "none")
             /\ UNCHANGED <<now, govVars, resVars, simVars, gateVars, applied_actions>>
        ELSE /\ pending_actions' = SetStatus(pending_actions, i, "EXECUTED")
             /\ audit_log' =
                   Append(audit_log,
                          AuditEntry("ACTION_APPROVED", action_id,
                                     pending_actions[i].created_at))
             /\ applied_actions' =
                   Append(applied_actions,
                          AppliedAction(pending_actions[i].node_id,
                                        pending_actions[i].action, now))
             /\ ret' = RetGate("approve", FALSE, action_id, "AttributeError",
                               pending_actions[i].action,
                               pending_actions[i].risk_level)
             /\ UNCHANGED <<now, govVars, resVars, simVars, execution_settings,
                            request>>

\* POST pending-actions/{action_id}/reject
RejectPendingAction(action_id) ==
    LET i == FindPending(pending_actions, action_id)
    IN  IF i = 0
        THEN /\ ret' = RetGate("reject", FALSE, action_id, "not_found",
                               "none", "none")
             /\ UNCHANGED <<now, govVars, resVars, simVars, gateVars, applied_actions>>
        ELSE /\ pending_actions' = SetStatus(pending_actions, i, "REJECTED")
             /\ audit_log' =
                   Append(audit_log,
                          AuditEntry("ACTION_REJECTED", action_id,
                                     pending_actions[i].created_at))
             /\ ret' = RetGate("reject", TRUE, action_id, "none",
                               pending_actions[i].action,
                               pending_actions[i].risk_level)
             /\ UNCHANGED <<now, govVars, resVars, simVars, execution_settings,
                            request, applied_actions>>

\* GET stadium-status.  The handler reads simulator.digital_twin for the
\* first node of the state, or simulator.trigger_system when there is no
\* node; Simulator defines neither (its twin is self.twin), so the handler
\* ends with an AttributeError before a recommendation reaches the gate.
GetStadiumStatus ==
    /\ ret' = RetGate("stadium_status", FALSE, 0, "AttributeError",
                      "none", "none")
    /\ UNCHANGED <<now, govVars, resVars, simVars, gateVars, applied_actions>>

\* POST settings/auto-execute: update_settings, then a SETTINGS_UPDATED entry
UpdateAutoExecutionSettings(auto_execute_enabled, disabled_nodes) ==
    /\ execution_settings' =
          update_settings(auto_execute_enabled, disabled_nodes)
    /\ audit_log' = Append(audit_log, AuditEntry("SETTINGS_UPDATED", 0, now))
    /\ ret' = Ret("settings", TRUE, 0, FALSE, "none")
    /\ UNCHANGED <<now, govVars, resVars, simVars, pending_actions, request,
                   applied_actions>>

----------------------------------------------------------------------------
(* Initial state: the module-level singletons as constructed *)

InitSpawnState ==
    [rate_multiplier |-> 100, is_blocked |-> FALSE, blocked_until |-> NONE]

\* register_node(node, 10.0, 20)
InitCapState ==
    [original_area_m2 |-> 10, current_area_m2 |-> 10,
     original_capacity |-> 20, current_capacity |-> 20,
     is_blocked |-> FALSE, blocked_until |-> NONE, adjustments |-> <<>>]

\* register_edge(from, to, 10)
InitEdgeState ==
    [original_flow_capacity |-> 10, current_flow_capacity |-> 10,
     is_blocked |-> FALSE, blocked_until |-> NONE, adjustments |-> <<>>]

Recommendation(node, action, priority) ==
    [node_id |-> node, action |-> action, priority |-> priority]

Context(density, trigger) ==
    [density |-> density, has_active_trigger |-> trigger]

NoRequest ==
    [rec |-> Recommendation("gate_a", NoStr, NoStr),
     context |-> Context(NONE, NONE)]

Init ==
    /\ now = 0
    /\ safety_constraints = DefaultConstraints
    /\ records = <<>>
    /\ intervention_history = <<>>
    /\ active_interventions = {}
    /\ rollback_stack = <<>>
    /\ violations = <<>>
    /\ spawn_states = [n \in Nodes |-> InitSpawnState]
    /\ node_data = InitTwin
    /\ spawn_queue = <<>>
    /\ agents = <<>>
    /\ stats = InitStats
    /\ trigger_system = InitTriggerSystem
    /\ snapshot = NONE
    /\ cap_states = [n \in Nodes |-> InitCapState]
    /\ edge_states = [k \in EdgeKeys |-> InitEdgeState]
    /\ execution_settings =
          [auto_execute_enabled |-> TRUE, disabled_nodes |-> {}]
    /\ pending_actions = <<>>
    /\ audit_log = <<>>
    /\ applied_actions = <<>>
    /\ request = NoRequest
    /\ ret = Ret("init", TRUE, 0, FALSE, "none")

----------------------------------------------------------------------------
(* The safety governor driven through its own interface *)

GovNodes == {"gate_a"}

GovConfigs ==
    {<<NONE, Some(2), NONE, NONE, NONE>>,
     <<Some(2), NONE, NONE, NONE, NONE>>,
     <<NONE, NONE, Some(1), NONE, NONE>>,
     <<NONE, NONE, NONE, NONE, Some(FALSE)>>,
     <<NONE, NONE, NONE, NONE, Some(TRUE)>>}

NextGov ==
    \/ \E m \in BOOLEAN : CheckSafetyConstraints(m)
    \/ \E n \in GovNodes : RoomToRecord /\ RecordIntervention(n)
    \/ \E c \in GovConfigs : ConfigureConstraints(c[1], c[2], c[3], c[4], c[5])
    \/ \E n \in StepCounts : RoomToStep(n) /\ Step(n)

SpecGov == Init /\ [][NextGov]_vars

\* Time since the last recorded intervention, for a non-empty history
TimeSinceLast == now - records[Last(intervention_history)].applied_at

\* C4: a non-manual proposal made while the time since the last recorded
\* intervention is below min_interval_seconds is rejected, and the violation
\* it records is a min-interval violation (so with the floor at 5, a
\* proposal 2 units after a recorded intervention is rejected).
C4_MinIntervalRejects ==
    [][(/\ ret'.op = "check"
        /\ ~ret'.manual
        /\ Len(intervention_history) > 0
        /\ TimeSinceLast < safety_constraints.min_interval_seconds)
       => (/\ ~ret'.ok
           /\ ret'.kind = "min_interval"
           /\ Len(violations') = Len(violations) + 1
           /\ Last(violations').violation_type = "min_interval"
           /\ Last(violations').actual_value = Float(TimeSinceLast)
           /\ Last(violations').limit_value
                 = safety_constraints.min_interval_seconds)]_vars

\* C4 witness: floor 5, an intervention recorded at t, a non-manual proposal
\* at t + 2 was just rejected for the interval
C4_Witness ==
    /\ ret.op = "check" /\ ~ret.manual /\ ~ret.ok
    /\ ret.kind = "min_interval"
    /\ safety_constraints.min_interval_seconds = 5
    /\ Len(intervention_history) > 0
    /\ TimeSinceLast = 2

\* C5: with enable_manual_override set a manual proposal is allowed and
\* records no violation, whatever the state; with it cleared a manual
\* proposal has the outcome of a non-manual proposal in the same state.
C5_ManualOverride ==
    [][(ret'.op = "check" /\ ret'.manual)
       => IF safety_constraints.enable_manual_override
          THEN ret'.ok /\ violations' = violations
          ELSE LET plain == check_safety_constraints(NextId, now, FALSE)
               IN  /\ ret'.ok = plain.allowed
                   /\ ret'.kind = plain.violation.violation_type
                   /\ violations' = IF plain.allowed THEN violations
                                    ELSE Append(violations, plain.violation)]_vars

\* C5 witness: a manual proposal was just allowed in a state in which each
\* of the three checks is one a non-manual proposal can fail: here the
\* interval check would have rejected it
C5_Witness ==
    /\ ret.op = "check" /\ ret.manual /\ ret.ok
    /\ safety_constraints.enable_manual_override
    /\ Len(intervention_history) > 0
    /\ TimeSinceLast < safety_constraints.min_interval_seconds

----------------------------------------------------------------------------
(* The governor used with the discipline record_intervention documents *)

CheckedConfigs ==
    {<<NONE, NONE, Some(1), NONE, NONE>>,
     <<NONE, NONE, Some(2), NONE, NONE>>,
     <<NONE, Some(2), NONE, NONE, NONE>>}

NextChecked ==
    \/ CheckSafetyConstraints(FALSE)
    \/ \E n \in GovNodes : RoomToRecord /\ CheckedRecordIntervention(n)
    \/ \E id \in 1..MaxInterventions : CompleteIntervention(id)
    \/ RollbackIntervention(0)
    \/ \E c \in CheckedConfigs :
          ConfigureConstraints(c[1], c[2], c[3], c[4], c[5])
    \/ \E n \in StepCounts : RoomToStep(n) /\ Step(n)

SpecChecked == Init /\ [][NextChecked]_vars

ActiveCount == Cardinality(active_interventions)

\* C6 as claimed: under that discipline the active count never exceeds
\* max_active_interventions, and a non-manual proposal made while the count
\* equals the cap is rejected with a max-active violation.
C6_Original ==
    /\ [](ActiveCount <= safety_constraints.max_active_interventions)
    /\ [][(/\ ret'.op = "check"
            /\ ~ret'.manual
            /\ ActiveCount = safety_constraints.max_active_interventions)
           => (~ret'.ok /\ ret'.kind = "max_active")]_vars

\* C6 as amended: under that discipline every recording leaves the active
\* count at or below the cap in force, and only a recording raises the
\* count (so the count exceeds the cap only after configure_constraints
\* lowers the cap below it); a non-manual proposal made while the count is
\* at or above the cap is rejected: with a min-interval violation when the
\* interval check, which runs first, fails, and with a max-active violation
\* carrying the count and the cap otherwise.
C6_ActiveCap ==
    [][/\ (ret'.op = "record")
            => (/\ ActiveCount' = ActiveCount + 1
                /\ ActiveCount' <= safety_constraints'.max_active_interventions)
       /\ (ret'.op # "record") => (active_interventions' \subseteq active_interventions)
       /\ (/\ ret'.op = "check"
           /\ ~ret'.manual
           /\ ActiveCount >= safety_constraints.max_active_interventions)
            => (/\ ~ret'.ok
                /\ IF /\ Len(intervention_history) > 0
                      /\ TimeSinceLast < safety_constraints.min_interval_seconds
                   THEN ret'.kind = "min_interval"
                   ELSE /\ ret'.kind = "max_active"
                        /\ Last(violations').actual_value = Float(ActiveCount)
                        /\ Last(violations').limit_value =
                              safety_constraints.max_active_interventions)]_vars

\* C6 witness: the count sits at the cap after checked recordings and a
\* non-manual proposal was just rejected for it
C6_Witness ==
    /\ ret.op = "check" /\ ~ret.ok /\ ret.kind = "max_active"
    /\ ActiveCount = safety_constraints.max_active_interventions
    /\ ActiveCount > 0

----------------------------------------------------------------------------
(* The rollback stack *)

StackConfigs ==
    {<<NONE, NONE, NONE, Some(FALSE), NONE>>,
     <<NONE, NONE, NONE, Some(TRUE), NONE>>}

NextStack ==
    \/ \E n \in GovNodes : RoomToRecord /\ RecordIntervention(n)
    \/ \E id \in 1..MaxInterventions : CompleteIntervention(id)
    \/ \E a \in 0..MaxInterventions : RollbackIntervention(a)
    \/ \E c \in StackConfigs :
          ConfigureConstraints(c[1], c[2], c[3], c[4], c[5])
    \/ \E n \in StepCounts : RoomToStep(n) /\ Step(n)

SpecStack == Init /\ [][NextStack]_vars

\* The records that are rollback-eligible and not yet rolled back
Eligible ==
    {id \in 1..Len(records) :
        records[id].can_rollback /\ ~records[id].rolled_back}

\* The most recently applied of them: the one latest in the history
MostRecentEligible ==
    intervention_history[
        MaxOf({i \in 1..Len(intervention_history) :
                  intervention_history[i] \in Eligible})]

\* What a rollback that reverses record id does to the governor
Reverses(id) ==
    /\ ret'.ok /\ ret'.id = id
    /\ records' = [records EXCEPT ![id].rolled_back = TRUE,
                                  ![id].rolled_back_at = Some(now)]
    /\ active_interventions' = active_interventions \ {id}
    /\ id \notin active_interventions'

RollbackFails ==
    /\ ~ret'.ok
    /\ UNCHANGED govVars

OnceRolledBack ==
    \A id \in 1..Len(records) :
        records[id].rolled_back => records'[id] = records[id]

\* C9 as claimed: a rollback without an id reverses the most recently
\* applied eligible record whenever there is one, and fails only when none
\* remains; a record is rolled back at most once.
C9_Original ==
    [][/\ (ret'.op = "rollback" /\ ret'.kind = "most_recent")
            => IF Eligible # {} THEN Reverses(MostRecentEligible)
               ELSE RollbackFails
       /\ OnceRolledBack]_vars

\* C9 as amended: while enable_rollback is set, a rollback without an id
\* reverses the most recently applied record that is rollback-eligible and
\* not yet rolled back, marks it rolled back at the current time and removes
\* it from the active set, and reports failure, changing nothing, when no
\* such record remains; while enable_rollback is cleared every rollback
\* reports failure and changes nothing, eligible records or not; a record
\* once rolled back is never changed again.
C9_RollbackOrder ==
    [][/\ (ret'.op = "rollback" /\ ret'.kind = "most_recent")
            => IF safety_constraints.enable_rollback /\ Eligible # {}
               THEN Reverses(MostRecentEligible)
               ELSE RollbackFails
       /\ (ret'.op = "rollback" /\ ~safety_constraints.enable_rollback)
            => RollbackFails
       /\ OnceRolledBack]_vars

\* C9 witness: two rollbacks without an id have undone two interventions in
\* reverse order of application: the later record was rolled back first,
\* the earlier one has just been rolled back, neither is active
C9_Witness ==
    /\ ret.op = "rollback" /\ ret.kind = "most_recent" /\ ret.ok
    /\ ret.id = 1
    /\ Len(records) >= 2
    /\ records[1].rolled_back /\ records[2].rolled_back
    /\ records[2].rolled_back_at[1] < records[1].rolled_back_at[1]
    /\ records[1].applied_at < records[2].applied_at
    /\ active_interventions \cap {1, 2} = {}

----------------------------------------------------------------------------
(* The frequency check under a burst of recorded interventions *)

FreqMaxRecords == 32
FreqStep == 61

FreqConfigs ==
    {<<Some(31), Some(0), Some(200), NONE, NONE>>,
     <<Some(123), Some(0), Some(200), NONE, NONE>>}

NextFreq ==
    \/ CheckSafetyConstraints(FALSE)
    \/ \E n \in GovNodes :
          Len(records) < FreqMaxRecords /\ RecordIntervention(n)
    \/ \E c \in FreqConfigs :
          ConfigureConstraints(c[1], c[2], c[3], c[4], c[5])
    \/ now = 0 /\ Step(FreqStep)

SpecFreq == Init /\ [][NextFreq]_vars

\* The number of interventions recorded with applied time in the trailing
\* 60-time-unit window ending at now
WindowCount ==
    Cardinality({i \in 1..Len(intervention_history) :
                    now - records[intervention_history[i]].applied_at <= 60})

\* C7 as claimed: a non-manual proposal that clears the interval and
\* max-active checks is allowed only if the window count is strictly below
\* max_interventions_per_minute; otherwise it is rejected with a
\* max-frequency violation whose measured value is exactly that count.
C7_Original ==
    [][(/\ ret'.op = "check"
        /\ ~ret'.manual
        /\ ~(Len(intervention_history) > 0
              /\ TimeSinceLast < safety_constraints.min_interval_seconds)
        /\ ActiveCount < safety_constraints.max_active_interventions)
       => IF WindowCount < safety_constraints.max_interventions_per_minute
          THEN ret'.ok
          ELSE /\ ~ret'.ok
               /\ ret'.kind = "max_frequency"
               /\ Last(violations').actual_value = Float(WindowCount)]_vars

----------------------------------------------------------------------------
(* The gate's decision on one recommendation, over all inputs *)

RecActions ==
    {"CLOSE_TEMPORARILY", "REDUCE_FLOW", "REROUTE", "EVACUATE", NoStr}
RecPriorities == {"CRITICAL", "WARNING", "INFO", NoStr}
Densities == {NONE, Some(34), Some(35), Some(50), Some(51)}
TriggerStates == {NONE, Some(FALSE), Some(TRUE)}

ClassifyRequests ==
    {[rec |-> Recommendation(n, a, p), context |-> Context(d, g)] :
        n \in GovNodes, a \in RecActions, p \in RecPriorities,
        d \in Densities, g \in TriggerStates}

InitClassify ==
    /\ now = 0
    /\ safety_constraints = DefaultConstraints
    /\ records = <<>>
    /\ intervention_history = <<>>
    /\ active_interventions = {}
    /\ rollback_stack = <<>>
    /\ violations = <<>>
    /\ spawn_states = [n \in Nodes |-> InitSpawnState]
    /\ node_data = InitTwin
    /\ spawn_queue = <<>>
    /\ agents = <<>>
    /\ stats = InitStats
    /\ trigger_system = InitTriggerSystem
    /\ snapshot = NONE
    /\ cap_states = [n \in Nodes |-> InitCapState]
    /\ edge_states = [k \in EdgeKeys |-> InitEdgeState]
    /\ execution_settings =
          [auto_execute_enabled |-> TRUE, disabled_nodes |-> {}]
    /\ pending_actions = <<>>
    /\ audit_log = <<>>
    /\ applied_actions = <<>>
    /\ request \in ClassifyRequests
    /\ ret = Ret("init", TRUE, 0, FALSE, "none")

MaxQueued == 1

SettingsUpdates ==
    {<<Some(FALSE), NONE>>, <<Some(TRUE), NONE>>,
     <<NONE, Some({"gate_a"})>>, <<NONE, Some({})>>}

NextClassify ==
    \/ /\ Len(pending_actions) < MaxQueued
       /\ ProcessRecommendation(request.rec, request.context)
    \/ \E u \in SettingsUpdates : UpdateSettings(u[1], u[2])

SpecClassify == InitClassify /\ [][NextClassify]_vars

\* The context the gate classifies the request in
RequestContext == AssessmentContext(request.rec, request.context, now)

\* C2: process_recommendation answers AUTO_EXECUTED only if auto-execution
\* is enabled, the target node is not disabled, no trigger is active, the
\* action it names is neither CLOSE_INFLOW nor THROTTLE_50, and the
\* classifier gives that action Low in the context of the call.
C2_AutoExecutedOnlyLow ==
    (ret.op = "process" /\ ret.kind = "AUTO_EXECUTED")
    => /\ execution_settings.auto_execute_enabled
       /\ request.rec.node_id \notin execution_settings.disabled_nodes
       /\ request.context.has_active_trigger # Some(TRUE)
       /\ ret.action \notin {"CLOSE_INFLOW", "THROTTLE_50"}
       /\ ret.action = "REROUTE" => RequestContext.density < LOW_DENSITY_THRESHOLD
       /\ ret.action =
            Engine_map_recommendation_action(request.rec.action, request.rec)
       /\ assess_risk(ret.action, RequestContext, NoStr) = "LOW"

\* C2 witness: a reroute below the density threshold was auto-executed
C2_Witness ==
    /\ ret.op = "process" /\ ret.kind = "AUTO_EXECUTED"
    /\ ret.action = "REROUTE"
    /\ request.context.density = Some(34)

\* C3 as claimed: a recommendation whose action is not a recognised kind, or
\* whose context lacks the density or the trigger state, is never answered
\* AUTO_EXECUTED.
C3_Original ==
    (/\ ret.op = "process"
     /\ \/ request.rec.action \notin {"CLOSE_TEMPORARILY", "REDUCE_FLOW", "REROUTE"}
        \/ request.context.density = NONE
        \/ request.context.has_active_trigger = NONE)
    => ret.kind # "AUTO_EXECUTED"

----------------------------------------------------------------------------
(* The approval path: recommendations queued by the gate and decided by a
   supervisor, with the governor's constraints and history changing *)

MaxRoutePending == 2
MaxAudit == 4

RouteRequests ==
    {[rec |-> Recommendation("gate_a", "CLOSE_TEMPORARILY", "CRITICAL"),
      context |-> Context(Some(45), Some(FALSE))],
     [rec |-> Recommendation("gate_b", "REDUCE_FLOW", "CRITICAL"),
      context |-> Context(Some(45), Some(FALSE))],
     [rec |-> Recommendation("gate_b", "REDUCE_FLOW", "WARNING"),
      context |-> Context(Some(35), Some(FALSE))]}

RouteConfigs ==
    {<<NONE, NONE, Some(0), NONE, NONE>>,
     <<NONE, NONE, NONE, NONE, Some(FALSE)>>}

RoomInAudit == Len(audit_log) < MaxAudit

\* Deciding this id writes no audit entry, or there is room for one
RoomToDecide(id) == FindPending(pending_actions, id) = 0 \/ RoomInAudit

NextQueue ==
    \/ \E r \in RouteRequests :
          /\ Len(pending_actions) < MaxRoutePending
          /\ ProcessRecommendation(r.rec, r.context)
    \/ GetStadiumStatus
    \/ \E id \in 1..MaxRoutePending : RoomToDecide(id) /\ ApprovePendingAction(id)
    \/ \E id \in 1..MaxRoutePending : RoomToDecide(id) /\ RejectPendingAction(id)
    \/ \E u \in SettingsUpdates :
          RoomInAudit /\ UpdateAutoExecutionSettings(u[1], u[2])

SpecQueue == Init /\ [][NextQueue]_vars

NextRoute ==
    \/ \E r \in RouteRequests :
          /\ Len(pending_actions) < MaxRoutePending
          /\ ProcessRecommendation(r.rec, r.context)
    \/ \E id \in 1..MaxRoutePending : RoomToDecide(id) /\ ApprovePendingAction(id)
    \/ \E id \in 1..MaxRoutePending : RoomToDecide(id) /\ RejectPendingAction(id)
    \/ \E n \in GovNodes : RoomToRecord /\ RecordIntervention(n)
    \/ \E c \in RouteConfigs :
          ConfigureConstraints(c[1], c[2], c[3], c[4], c[5])

SpecRoute == Init /\ [][NextRoute]_vars

\* C1 as claimed: an intervention is applied only if the governor's checks
\* allow it in the state it is applied in (read here in the weakest way:
\* an approved item counts as a manual intervention).
C1_Original ==
    [][applied_actions' # applied_actions
       => check_safety_constraints(ret'.id, now, TRUE).allowed]_vars

\* The status of the item with this id, "none" when there is no such item
StatusOf(pending, action_id) ==
    IF action_id \in 1..Len(pending) THEN pending[action_id].status
    ELSE "none"

\* C10: an approve or reject takes effect only on an item that is PENDING,
\* which it moves to EXECUTED (applying its intervention once) or to
\* REJECTED (applying nothing); on an item already decided, or unknown, it
\* answers not-found and changes neither the queue nor what was applied.
C10_DecidedOnce ==
    [][ret'.op \in {"approve", "reject"}
       => IF StatusOf(pending_actions, ret'.id) = "PENDING"
          THEN /\ ret'.kind # "not_found"
               /\ pending_actions' =
                     SetStatus(pending_actions, ret'.id,
                               IF ret'.op = "approve" THEN "EXECUTED"
                               ELSE "REJECTED")
               /\ applied_actions' =
                     IF ret'.op = "approve"
                     THEN Append(applied_actions,
                                 AppliedAction(pending_actions[ret'.id].node_id,
                                               pending_actions[ret'.id].action,
                                               now))
                     ELSE applied_actions
          ELSE /\ ret'.kind = "not_found"
               /\ pending_actions' = pending_actions
               /\ applied_actions' = applied_actions]_vars

\* C10 witness: an item already executed was approved again, to no effect
C10_Witness ==
    /\ ret.op = "approve" /\ ret.kind = "not_found"
    /\ StatusOf(pending_actions, ret.id) = "EXECUTED"
    /\ \E k \in 1..Len(pending_actions) :
          pending_actions[k].status = "REJECTED"

----------------------------------------------------------------------------
(* Interventions on the spawn rate, recorded with the state they replace,
   and rolled back through the governor *)

RateMultipliers == {0, 50, 100, 150}
Durations == {NONE, Some(0), Some(2)}

NextRollback ==
    \/ \E n \in GovNodes : RoomToRecord /\ RecordIntervention(n)
    \/ \E n \in GovNodes, m \in RateMultipliers, d \in Durations :
          ControlSpawnRate(n, m, d)
    \/ \E a \in 0..MaxInterventions : RollbackIntervention(a)
    \/ \E n \in StepCounts : RoomToStep(n) /\ Step(n)

SpecRollback == Init /\ [][NextRollback]_vars

\* C8 as claimed: a rollback that succeeds leaves the node of the record
\* with the spawn-rate multiplier, area, capacity and blocked state that
\* the record holds as the state before the intervention.
C8_Original ==
    [][(ret'.op = "rollback" /\ ret'.ok)
       => LET r == records[ret'.id]
          IN  /\ spawn_states'[r.node_id].rate_multiplier =
                    r.rollback_data.rate_multiplier
              /\ cap_states'[r.node_id].current_area_m2 =
                    r.rollback_data.current_area_m2
              /\ cap_states'[r.node_id].current_capacity =
                    r.rollback_data.current_capacity
              /\ cap_states'[r.node_id].is_blocked =
                    r.rollback_data.is_blocked]_vars

----------------------------------------------------------------------------
(* The pending queue filled to its limit by one recommendation repeated *)

FullRequests ==
    {[rec |-> Recommendation("gate_a", "CLOSE_TEMPORARILY", "CRITICAL"),
      context |-> Context(Some(45), Some(FALSE))],
     [rec |-> Recommendation("gate_a", "REDUCE_FLOW", "WARNING"),
      context |-> Context(Some(35), Some(FALSE))]}

InitFull ==
    /\ now = 0
    /\ safety_constraints = DefaultConstraints
    /\ records = <<>>
    /\ intervention_history = <<>>
    /\ active_interventions = {}
    /\ rollback_stack = <<>>
    /\ violations = <<>>
    /\ spawn_states = [n \in Nodes |-> InitSpawnState]
    /\ node_data = InitTwin
    /\ spawn_queue = <<>>
    /\ agents = <<>>
    /\ stats = InitStats
    /\ trigger_system = InitTriggerSystem
    /\ snapshot = NONE
    /\ cap_states = [n \in Nodes |-> InitCapState]
    /\ edge_states = [k \in EdgeKeys |-> InitEdgeState]
    /\ execution_settings =
          [auto_execute_enabled |-> TRUE, disabled_nodes |-> {}]
    /\ pending_actions = <<>>
    /\ audit_log = <<>>
    /\ applied_actions = <<>>
    /\ request \in FullRequests
    /\ ret = Ret("init", TRUE, 0, FALSE, "none")

\* The items a supervisor decides in this specification
MaxDecided == 2

NextFull ==
    \/ ProcessRecommendation(request.rec, request.context)
    \/ \E id \in 1..MaxDecided : ApprovePendingAction(id)
    \/ \E id \in 1..MaxDecided : RejectPendingAction(id)
    \/ \E u \in SettingsUpdates : UpdateSettings(u[1], u[2])

SpecFull == InitFull /\ [][NextFull]_vars

\* The gate takes the request to the queueing branch: auto-execution is on
\* for its node and the decision is not to auto-execute
NeedsQueueing ==
    /\ execution_settings.auto_execute_enabled
    /\ request.rec.node_id \notin execution_settings.disabled_nodes
    /\ ~should_auto_execute(
           Engine_map_recommendation_action(request.rec.action, request.rec),
           RequestContext, TRUE)

\* C11: the pending queue never holds more than max_pending_actions (10)
\* items; a recommendation that reaches the queueing branch while the queue
\* holds 10 items is answered QUEUE_FULL and the queue and audit log stay
\* as they were, and below 10 items it is appended as PENDING.
C11_BoundedQueue ==
    [][/\ Len(pending_actions') <= MaxPendingActions
       /\ (ret'.op = "process" /\ NeedsQueueing)
          => IF Len(pending_actions) >= MaxPendingActions
             THEN /\ ret'.kind = "QUEUE_FULL"
                  /\ pending_actions' = pending_actions
                  /\ audit_log' = audit_log
             ELSE /\ ret'.kind = "PENDING"
                  /\ Len(pending_actions') = Len(pending_actions) + 1]_vars

\* C11 witness: the overflow was reported on a queue of 10 items
C11_Witness ==
    /\ ret.op = "process" /\ ret.kind = "QUEUE_FULL"
    /\ Len(pending_actions) = MaxPendingActions

----------------------------------------------------------------------------
(* The audit log *)

\* The step is one the audit log is claimed to record: a decision of the
\* gate on a recommendation, an approval or rejection that took effect, a
\* settings change, or a check of the governor that found a violation
AuditedEvent ==
    \/ ret'.op = "process"
    \/ ret'.op \in {"approve", "reject"} /\ ret'.kind # "not_found"
    \/ ret'.op = "settings"
    \/ ret'.op = "check" /\ ~ret'.ok

\* C12 as claimed: every such event appends exactly one entry to the audit
\* log, after the entries already there.
C12_Original ==
    [][AuditedEvent
       => /\ Len(audit_log') = Len(audit_log) + 1
          /\ SubSeq(audit_log', 1, Len(audit_log)) = audit_log]_vars

----------------------------------------------------------------------------
(* What a check of the governor leaves behind *)

\* The violation a failed check is expected to record: the first constraint
\* that fails, in the order interval, active count, frequency, with the
\* value measured for it and the limit in force
ExpectedViolation ==
    IF Len(intervention_history) > 0
       /\ TimeSinceLast < safety_constraints.min_interval_seconds
    THEN [violation_type |-> "min_interval", intervention_id |-> NextId,
          timestamp |-> now, actual_value |-> Float(TimeSinceLast),
          limit_value |-> safety_constraints.min_interval_seconds]
    ELSE IF ActiveCount >= safety_constraints.max_active_interventions
    THEN [violation_type |-> "max_active", intervention_id |-> NextId,
          timestamp |-> now, actual_value |-> Float(ActiveCount),
          limit_value |-> safety_constraints.max_active_interventions]
    ELSE [violation_type |-> "max_frequency", intervention_id |-> NextId,
          timestamp |-> now,
          actual_value |-> FrequencyPerMinute(WindowCount),
          limit_value |-> safety_constraints.max_interventions_per_minute]

\* C13: a check returns an outcome and never fails otherwise; when it does
\* not allow the proposal it names the violated constraint and appends
\* exactly one violation record with the constraint type, the measured
\* value, the limit and the time of the check; passing or failing, it
\* leaves the intervention history, the active set, the rollback stack and
\* the constraints as they were, and a passing check records no violation.
C13_CheckRecordsViolation ==
    [][ret'.op = "check"
       => /\ UNCHANGED <<records, intervention_history, active_interventions,
                         rollback_stack, safety_constraints>>
          /\ IF ret'.ok
             THEN violations' = violations /\ ret'.kind = "none"
             ELSE /\ violations' = Append(violations, ExpectedViolation)
                  /\ ret'.kind = ExpectedViolation.violation_type]_vars

\* C13 witness: a check failed on the active count and recorded it
C13_Witness ==
    /\ ret.op = "check" /\ ~ret.ok /\ ret.kind = "max_active"
    /\ Len(violations) = 1
    /\ Last(violations).timestamp = now /\ now > 0

----------------------------------------------------------------------------
(* One spawn-rate override, set at a chosen time, and the expiry sweep *)

OverrideTimes == {0, 2}

SpawnOverrides ==
    [node_id : GovNodes, rate_multiplier : RateMultipliers,
     duration : Durations, set_at : OverrideTimes]

InitOverride ==
    /\ now = 0
    /\ safety_constraints = DefaultConstraints
    /\ records = <<>>
    /\ intervention_history = <<>>
    /\ active_interventions = {}
    /\ rollback_stack = <<>>
    /\ violations = <<>>
    /\ spawn_states = [n \in Nodes |-> InitSpawnState]
    /\ node_data = InitTwin
    /\ spawn_queue = <<>>
    /\ agents = <<>>
    /\ stats = InitStats
    /\ trigger_system = InitTriggerSystem
    /\ snapshot = NONE
    /\ cap_states = [n \in Nodes |-> InitCapState]
    /\ edge_states = [k \in EdgeKeys |-> InitEdgeState]
    /\ execution_settings =
          [auto_execute_enabled |-> TRUE, disabled_nodes |-> {}]
    /\ pending_actions = <<>>
    /\ audit_log = <<>>
    /\ applied_actions = <<>>
    /\ request \in SpawnOverrides
    /\ ret = Ret("init", TRUE, 0, FALSE, "none")

NextOverride ==
    \/ /\ now = request.set_at
       /\ ControlSpawnRate(request.node_id, request.rate_multiplier,
                           request.duration)
    \/ SpawnUpdateTime
    \/ \E n \in GovNodes : GetEffectiveSpawnRate(n)
    \/ \E n \in StepCounts : RoomToStep(n) /\ Step(n)

SpecOverride == InitOverride /\ [][NextOverride]_vars

\* The multiplier the override asks for, within [0, 1]
OverrideMultiplier == Clamp(0, 100, request.rate_multiplier)

\* The override is in force: the node has its multiplier and its expiry
OverrideInForce ==
    /\ request.duration # NONE
    /\ spawn_states[request.node_id].rate_multiplier = OverrideMultiplier
    /\ now >= request.set_at

\* C14 as claimed, for an override with a supplied duration D >= 0 set at
\* time t: setting it makes the node report its multiplier; while the time
\* is before t + D every operation leaves that multiplier reported; and an
\* update_time at a time at or past t + D leaves the node with multiplier
\* 1.0, the base rate and not blocked.
C14_Original ==
    [][/\ (ret'.op = "spawn_control" /\ request.duration # NONE)
          => spawn_states'[request.node_id].rate_multiplier =
                OverrideMultiplier
       /\ (OverrideInForce /\ ret'.op # "spawn_control"
           /\ now' < request.set_at + request.duration[1])
          => spawn_states'[request.node_id].rate_multiplier =
                OverrideMultiplier
       /\ (ret'.op = "update_time" /\ request.duration # NONE
           /\ now >= request.set_at + request.duration[1])
          => /\ spawn_states'[request.node_id].rate_multiplier = 100
             /\ CurrentRate(spawn_states'[request.node_id]) =
                   DefaultSpawnRate * 100
             /\ ~spawn_states'[request.node_id].is_blocked]_vars

----------------------------------------------------------------------------
(* Specification SpecTick: a running simulation whose arrivals are
   scheduled, with spawn-rate overrides and zone blocks set through the
   two controllers and no sweep requested by any caller *)

SpawnEvent(time, start, goal) ==
    [time |-> time, start |-> start, goal |-> goal]

\* setup_continuous_spawn: the queue, sorted by time
ArrivalSchedule ==
    <<SpawnEvent(1, "gate_a", "exit"), SpawnEvent(3, "gate_a", "exit")>>

InitTick ==
    /\ now = 0
    /\ safety_constraints = DefaultConstraints
    /\ records = <<>>
    /\ intervention_history = <<>>
    /\ active_interventions = {}
    /\ rollback_stack = <<>>
    /\ violations = <<>>
    /\ spawn_states = [n \in Nodes |-> InitSpawnState]
    /\ cap_states = [n \in Nodes |-> InitCapState]
    /\ edge_states = [k \in EdgeKeys |-> InitEdgeState]
    /\ node_data = InitTwin
    /\ spawn_queue = ArrivalSchedule
    /\ agents = <<>>
    /\ stats = InitStats
    /\ trigger_system = InitTriggerSystem
    /\ snapshot = NONE
    /\ execution_settings =
          [auto_execute_enabled |-> TRUE, disabled_nodes |-> {}]
    /\ pending_actions = <<>>
    /\ audit_log = <<>>
    /\ applied_actions = <<>>
    /\ request = NoRequest
    /\ ret = Ret("init", TRUE, 0, FALSE, "none")

TickMultipliers == {0, 50}
TickDurations == {NONE, Some(2)}

NextTick ==
    \/ \E m \in TickMultipliers, d \in TickDurations :
          ControlSpawnRate("gate_a", m, d)
    \/ \E d \in TickDurations : BlockZone("gate_a", d)
    \/ RoomToStep(1) /\ Step(1)

SpecTick == InitTick /\ [][NextTick]_vars

\* An override of the spawn controller whose expiry is at or before t
SpawnOverrideDue(state, t) ==
    state.blocked_until # NONE /\ state.blocked_until[1] <= t

\* C15 (as stated): a tick sweeps both controllers with the tick's time, so
\* after a tick no zone keeps a spawn-rate override or a capacity block
\* whose expiry was at or before the time of that tick.
C15_Original ==
    [][now' = now + 1 =>
          \A n \in Nodes :
             /\ ~SpawnOverrideDue(spawn_states'[n], now)
             /\ ~BlockExpired(cap_states'[n], now)]_vars

\* The events the admission step of a tick takes from the queue
Admitted == SubSeq(spawn_queue, 1, Len(spawn_queue) - Len(spawn_queue'))

\* C16 (as stated): the admission step of a tick admits an entity at an
\* entry zone only if the SpawnRateController allows spawning there at the
\* time of the tick; none is admitted while the zone's spawn is blocked.
C16_Original ==
    [][now' = now + 1 =>
          \A i \in 1..Len(Admitted) :
             can_spawn(spawn_states[Admitted[i].start], now)]_vars

----------------------------------------------------------------------------
(* Specification SpecClose: a running simulation whose arrivals walk from
   gate_b to the hall, by gate_a unless it is blocked, with gate_a closed
   through execute_action or blocked through the CapacityController *)

WalkSchedule ==
    <<SpawnEvent(1, "gate_b", "hall"), SpawnEvent(4, "gate_b", "hall")>>

InitClose ==
    /\ now = 0
    /\ safety_constraints = DefaultConstraints
    /\ records = <<>>
    /\ intervention_history = <<>>
    /\ active_interventions = {}
    /\ rollback_stack = <<>>
    /\ violations = <<>>
    /\ spawn_states = [n \in Nodes |-> InitSpawnState]
    /\ cap_states = [n \in Nodes |-> InitCapState]
    /\ edge_states = [k \in EdgeKeys |-> InitEdgeState]
    /\ node_data = InitTwin
    /\ spawn_queue = WalkSchedule
    /\ agents = <<>>
    /\ stats = InitStats
    /\ trigger_system = InitTriggerSystem
    /\ snapshot = NONE
    /\ execution_settings =
          [auto_execute_enabled |-> TRUE, disabled_nodes |-> {}]
    /\ pending_actions = <<>>
    /\ audit_log = <<>>
    /\ applied_actions = <<>>
    /\ request = NoRequest
    /\ ret = Ret("init", TRUE, 0, FALSE, "none")

\* action.get("duration", 60), in ticks
CloseDurations == {2}

NextClose ==
    \/ \E d \in CloseDurations : CloseNode("gate_a", d)
    \/ \E d \in TickDurations : BlockZone("gate_a", d)
    \/ RestoreNode("gate_a")
    \/ RoomToStep(1) /\ Step(1)

SpecClose == InitClose /\ [][NextClose]_vars

\* C17 (as stated): a zone closed with a finite duration is unblocked by
\* the first tick whose time is at or past the block's expiry, so that
\* the path search may route through it again.
C17_Original ==
    [][now' = now + 1 =>
          \A n \in TwinNodes :
             (node_data[n].is_blocked /\ node_data[n].block_expires <= now)
                => ~node_data'[n].is_blocked]_vars

\* The stops of a path between its two ends
Interior(path) ==
    IF path = <<>> THEN {} ELSE Range(path) \ {path[1], path[Len(path)]}

\* C18 (as stated): while the CapacityController has a zone blocked, the
\* path searched for an entity admitted in a tick does not use that zone
\* as an intermediate stop.
C18_Original ==
    [][now' = now + 1 =>
          \A i \in (Len(agents) + 1)..Len(agents') :
             \A n \in Nodes :
                cap_states[n].is_blocked
                   => n \notin Interior(agents'[i].path)]_vars

----------------------------------------------------------------------------
(* Specification SpecCapacity: the CapacityController with its sweep, on
   one zone and one edge *)

ExpansionFactors == {100, 120}
IncreaseFactors == {150}

\* The ticks the controller is followed for
CapHorizon == 3

NextCapacity ==
    \/ \E f \in ExpansionFactors, d \in TickDurations :
          ExpandNodeArea("gate_a", f, d)
    \/ \E d \in TickDurations : BlockZone("gate_a", d)
    \/ RestoreNode("gate_a")
    \/ \E k \in EdgeKeys, f \in IncreaseFactors, d \in TickDurations :
          IncreaseEdgeFlow(k, f, d)
    \/ CapUpdateTime
    \/ now < CapHorizon /\ Step(1)

SpecCapacity == Init /\ [][NextCapacity]_vars

\* The adjustments of the given type in the list of a zone or edge
OfType(state, adjustment_type) ==
    {i \in 1..Len(state.adjustments) :
        state.adjustments[i].adjustment_type = adjustment_type}

\* Every adjustment of the type was made with a duration, and the expiry
\* of each has passed
AllLapsed(state, adjustment_type, current_time) ==
    /\ OfType(state, adjustment_type) # {}
    /\ \A i \in OfType(state, adjustment_type) :
          Expired(state.adjustments[i], current_time)

\* C19 (as stated): once update_time has been called after the expiry of
\* the timed changes, they are no longer in effect: a zone all of whose
\* expansions have lapsed has its original area, a zone all of whose blocks
\* have lapsed is not blocked, and an edge all of whose flow increases have
\* lapsed has its original flow capacity.
C19_Original ==
    [][ret'.op = "cap_update_time" =>
          /\ \A n \in Nodes :
                /\ AllLapsed(cap_states'[n], "expand_area", now)
                      => cap_states'[n].current_area_m2 =
                            cap_states'[n].original_area_m2
                /\ AllLapsed(cap_states'[n], "block_zone", now)
                      => ~cap_states'[n].is_blocked
          /\ \A k \in EdgeKeys :
                AllLapsed(edge_states'[k], "increase_flow", now)
                   => edge_states'[k].current_flow_capacity =
                         edge_states'[k].original_flow_capacity]_vars

\* An adjustment of the type is permanent or has not reached its expiry
SomeInForce(state, adjustment_type, current_time) ==
    \E i \in OfType(state, adjustment_type) :
       ~Expired(state.adjustments[i], current_time)

\* C20 (as stated): update_time leaves in force the effect of every
\* adjustment that is permanent or unexpired: an expanded zone with such an
\* expansion keeps its area, a blocked zone with such a block stays
\* blocked, and an edge with such a flow increase keeps its flow capacity.
C20_Original ==
    [][ret'.op = "cap_update_time" =>
          /\ \A n \in Nodes :
                /\ (/\ SomeInForce(cap_states[n], "expand_area", now)
                    /\ cap_states[n].current_area_m2 >
                          cap_states[n].original_area_m2)
                      => cap_states'[n].current_area_m2 =
                            cap_states[n].current_area_m2
                /\ (/\ SomeInForce(cap_states[n], "block_zone", now)
                    /\ cap_states[n].is_blocked)
                      => cap_states'[n].is_blocked
          /\ \A k \in EdgeKeys :
                (/\ SomeInForce(edge_states[k], "increase_flow", now)
                 /\ edge_states[k].current_flow_capacity >
                       edge_states[k].original_flow_capacity)
                   => edge_states'[k].current_flow_capacity =
                         edge_states[k].current_flow_capacity]_vars

----------------------------------------------------------------------------
(* Specification SpecBlock: a running simulation with two entities, one at
   gate_a and one about to enter it, and the interventions of a case study
   on gate_a *)

BlockSchedule ==
    <<SpawnEvent(0, "gate_a", "exit"), SpawnEvent(0, "gate_b", "hall")>>

InitBlock ==
    /\ now = 0
    /\ safety_constraints = DefaultConstraints
    /\ records = <<>>
    /\ intervention_history = <<>>
    /\ active_interventions = {}
    /\ rollback_stack = <<>>
    /\ violations = <<>>
    /\ spawn_states = [n \in Nodes |-> InitSpawnState]
    /\ cap_states = [n \in Nodes |-> InitCapState]
    /\ edge_states = [k \in EdgeKeys |-> InitEdgeState]
    /\ node_data = InitTwin
    /\ spawn_queue = BlockSchedule
    /\ agents = <<>>
    /\ stats = InitStats
    /\ trigger_system = InitTriggerSystem
    /\ snapshot = NONE
    /\ execution_settings =
          [auto_execute_enabled |-> TRUE, disabled_nodes |-> {}]
    /\ pending_actions = <<>>
    /\ audit_log = <<>>
    /\ applied_actions = <<>>
    /\ request = NoRequest
    /\ ret = Ret("init", TRUE, 0, FALSE, "none")

CaseStudyActions == {"THROTTLE_25", "THROTTLE_50", "CLOSE_INFLOW", "REROUTE"}

NextBlock ==
    \/ \E action \in CaseStudyActions : ApplyAction("gate_a", action)
    \/ RoomToStep(1) /\ Step(1)

SpecBlock == InitBlock /\ [][NextBlock]_vars

\* The simulator as the movement phase of the next tick finds it
TickView ==
    update_node_occupancy(process_spawn_queue(Sim))

Unblocked(a) == [a EXCEPT !.blocked_until_time = 0]

\* C21 (as stated): in the tick at time now an entity whose blocked-until
\* timestamp exceeds now does not move, and an entity whose blocked-until
\* timestamp is at or below now is not held by the block: the tick has the
\* same outcomes for it as for an entity that was never blocked.
C21_Original ==
    \A i \in 1..Len(TickView.agents) :
       LET a == TickView.agents[i]
       IN  (a.in_sim /\ ~a.has_reached_goal) =>
              /\ a.blocked_until_time > now * 10
                    => AgentOutcomes(a, TickView.nd) = {a}
              /\ a.blocked_until_time <= now * 10
                    => {Unblocked(x) : x \in AgentOutcomes(a, TickView.nd)}
                          = AgentOutcomes(Unblocked(a), TickView.nd)

----------------------------------------------------------------------------
(* Specification SpecPanic: one entity walking from gate_b to the exit,
   whose panic is raised and decayed by calls of update_panic and
   decay_panic while the simulation ticks *)

PanicSchedule == <<SpawnEvent(0, "gate_b", "exit")>>

InitPanic ==
    /\ now = 0
    /\ safety_constraints = DefaultConstraints
    /\ records = <<>>
    /\ intervention_history = <<>>
    /\ active_interventions = {}
    /\ rollback_stack = <<>>
    /\ violations = <<>>
    /\ spawn_states = [n \in Nodes |-> InitSpawnState]
    /\ cap_states = [n \in Nodes |-> InitCapState]
    /\ edge_states = [k \in EdgeKeys |-> InitEdgeState]
    /\ node_data = InitTwin
    /\ spawn_queue = PanicSchedule
    /\ agents = <<>>
    /\ stats = InitStats
    /\ trigger_system = InitTriggerSystem
    /\ snapshot = NONE
    /\ execution_settings =
          [auto_execute_enabled |-> TRUE, disabled_nodes |-> {}]
    /\ pending_actions = <<>>
    /\ audit_log = <<>>
    /\ applied_actions = <<>>
    /\ request = NoRequest
    /\ ret = Ret("init", TRUE, 0, FALSE, "none")

\* The levels given to update_panic: below 0, 0, below the calm level,
\* inside the range, and above 1.0
PanicInputs == {0 - 50000, 0, 3000, 50000, 150000}

\* The ticks the entity is followed for: the hold of a panic raised in
\* the first ticks ends within them
PanicHorizon == 13

\* The last time at which the model raises panic
LastStimulus == 1

NextPanic ==
    \/ \E level \in PanicInputs : now <= LastStimulus /\ UpdatePanic(1, level)
    \/ DecayPanic(1, 1)
    \/ now < PanicHorizon /\ Step(1)

SpecPanic == InitPanic /\ [][NextPanic]_vars

\* C22 (as stated): after the hold period of its panic has ended, a tick
\* reduces the panic of an entity that is in the simulation, is not at its
\* goal and does not wait in that tick (it is not blocked, and the density
\* around it is below its preferred personal space).
C22_Original ==
    [][now' = now + 1 =>
          \A i \in 1..Len(agents) :
             (/\ agents[i].in_sim
              /\ ~agents[i].has_reached_goal
              /\ agents[i].blocked_until_time = 0
              /\ Density(TickView.nd, agents[i].current_node)
                    < PreferredPersonalSpace
              /\ agents[i].panic_level > 0
              /\ now > agents[i].panic_influenced_until)
                => agents'[i].panic_level < agents[i].panic_level]_vars

\* C23: update_panic never decreases the panic level of an entity,
\* decay_panic never increases it, and after every step the panic level of
\* every entity is within [0, 1].
C23_PanicMonotoneBounded ==
    [][\A i \in 1..Len(agents') :
          /\ agents'[i].panic_level \in 0..PanicUnit
          /\ (i <= Len(agents) /\ ret'.op = "update_panic")
                => agents'[i].panic_level >= agents[i].panic_level
          /\ (i <= Len(agents) /\ ret'.op = "decay_panic")
                => agents'[i].panic_level <= agents[i].panic_level]_vars

\* A panic that was raised to the top of the range and has decayed since
C23_Witness ==
    /\ ret.op = "decay_panic"
    /\ \E i \in 1..Len(agents) :
          /\ agents[i].applied_panic = PanicUnit
          /\ agents[i].panic_level > 0
          /\ agents[i].panic_level < PanicUnit

----------------------------------------------------------------------------
(* Specification SpecLife: three entities spawned at two gates walk to the
   hall and are retired there; the simulation may be reset at any time *)

\* Simulator.__init__ and the services beside it, on the given node_data
\* of the twin and with the given spawn queue
InitSimOn(twin, queue) ==
    /\ now = 0
    /\ safety_constraints = DefaultConstraints
    /\ records = <<>>
    /\ intervention_history = <<>>
    /\ active_interventions = {}
    /\ rollback_stack = <<>>
    /\ violations = <<>>
    /\ spawn_states = [n \in Nodes |-> InitSpawnState]
    /\ cap_states = [n \in Nodes |-> InitCapState]
    /\ edge_states = [k \in EdgeKeys |-> InitEdgeState]
    /\ node_data = twin
    /\ spawn_queue = queue
    /\ agents = <<>>
    /\ stats = InitStats
    /\ trigger_system = InitTriggerSystem
    /\ snapshot = NONE
    /\ execution_settings =
          [auto_execute_enabled |-> TRUE, disabled_nodes |-> {}]
    /\ pending_actions = <<>>
    /\ audit_log = <<>>
    /\ applied_actions = <<>>
    /\ request = NoRequest
    /\ ret = Ret("init", TRUE, 0, FALSE, "none")

\* The same on the twin of the scenario
InitSim(queue) == InitSimOn(InitTwin, queue)

\* Simulator.reset: the agents, the clock, the spawn queue, the counters
\* and the occupancy of every zone go back to their initial values
Reset ==
    /\ agents' = <<>>
    /\ now' = 0
    /\ spawn_queue' = <<>>
    /\ stats' = InitStats
    /\ node_data' = [n \in TwinNodes |-> update_node_count(node_data[n], 0)]
    /\ ret' = Ret("reset", TRUE, 0, FALSE, "none")
    /\ UNCHANGED <<govVars, resVars, gateVars, applied_actions,
                   trigger_system, snapshot>>

LifeSchedule ==
    <<SpawnEvent(0, "gate_b", "hall"), SpawnEvent(1, "gate_a", "hall"),
      SpawnEvent(2, "gate_b", "hall")>>

InitLife == InitSim(LifeSchedule)

NextLife ==
    \/ RoomToStep(1) /\ Step(1)
    \/ agents # <<>> /\ Reset

SpecLife == InitLife /\ [][NextLife]_vars

\* Simulator.agents: the ids of the agents in the simulation
Live(ags) == {i \in 1..Len(ags) : ags[i].in_sim}

\* The agents a step takes out of the simulation
Removed == {i \in Live(agents) : i > Len(agents') \/ ~agents'[i].in_sim}

\* C25: a tick removes an entity from the live set only if the entity has
\* reached its goal, never one that is still on its path; the reached-goal
\* counter grows in a tick by exactly the number of entities the tick
\* removes; and after every step the total number spawned equals the
\* number of live entities plus the reached-goal count.
C25_RetiredOnlyAtGoal ==
    [][/\ ret'.op = "step" =>
             /\ \A i \in Removed : agents[i].has_reached_goal
             /\ stats'.agents_reached_goal
                   = stats.agents_reached_goal + Cardinality(Removed)
       /\ stats'.total_agents_spawned
             = Cardinality(Live(agents')) + stats'.agents_reached_goal]_vars

\* A tick has retired an entity while another one is still on its path
C25_Witness ==
    /\ ret.op = "step"
    /\ stats.agents_reached_goal >= 1
    /\ \E i \in 1..Len(agents) : ~agents[i].in_sim
    /\ \E i \in Live(agents) :
          ~agents[i].has_reached_goal /\ agents[i].path_index > 0

----------------------------------------------------------------------------
(* Specification SpecCrowd: a crowd spawned at gate_a at time 0 walks to the
   hall, with no trigger and no intervention; the simulation ticks for
   ever, and every draw that can succeed succeeds eventually *)

\* The sizes of the crowd: gate_a has 0.4 m2, so that five entities make a
\* density of 12.5 and six a density of 15.0 persons per m2
CrowdSizes == {1, 5, 6}

\* setup_continuous_spawn: n entities due at time 0
CrowdSchedule(n) == [i \in 1..n |-> SpawnEvent(0, "gate_a", "hall")]

\* The clock of the model stops at this time: once the spawn queue is
\* empty the tick does not read current_time any more
CrowdHorizon == 2

InitCrowd == \E n \in CrowdSizes : InitSim(CrowdSchedule(n))

\* Simulator.step, for ever
CrowdTick ==
    /\ \E s \in Tick(Sim) :
          /\ now' = IF s.queue = <<>> THEN Min(s.time, CrowdHorizon)
                    ELSE s.time
          /\ stats' = s.stats
          /\ spawn_queue' = s.queue
          /\ agents' = s.agents
          /\ node_data' = s.nd
    /\ ret' = Ret("step", TRUE, 0, FALSE, "none")
    /\ UNCHANGED <<govVars, resVars, gateVars, applied_actions,
                   trigger_system, snapshot>>

NextCrowd == CrowdTick

\* Some agent moves to the next zone of its path
Advances ==
    \E i \in 1..Len(agents) : agents'[i].path_index > agents[i].path_index

\* The ticks go on, and while ticks in which an entity moves are possible
\* again and again, such a tick happens; an entity moves only a bounded
\* number of times, so that every entity that can move again and again
\* does move
SpecCrowd ==
    /\ InitCrowd
    /\ [][NextCrowd]_vars
    /\ WF_vars(NextCrowd)
    /\ SF_vars(CrowdTick /\ Advances)

\* Every spawned entity is retired and the zones are empty
AllRetired ==
    /\ spawn_queue = <<>>
    /\ stats.total_agents_spawned > 0
    /\ stats.agents_reached_goal = stats.total_agents_spawned
    /\ Live(agents) = {}
    /\ node_data["gate_a"].current_count = 0

\* C24 (as stated): with no trigger, no intervention and fair movement,
\* every spawned entity whose goal is reachable from its start zone is
\* retired eventually: the reached-goal count comes to equal the number
\* spawned and the occupancy of the start zone returns to 0.
C24_Original == <>AllRetired

----------------------------------------------------------------------------
(* Specification SpecStrand: an entity is spawned at gate_b for the exit
   while the zones on its two routes are being closed *)

StrandSchedule == <<SpawnEvent(2, "gate_b", "exit")>>

\* The zones closed: one on each route from gate_b to the exit
ClosedZones == {"gate_a", "side"}

InitStrand == InitSim(StrandSchedule)

NextStrand ==
    \/ \E n \in ClosedZones : \E d \in CloseDurations : CloseNode(n, d)
    \/ RoomToStep(1) /\ Step(1)

SpecStrand == InitStrand /\ [][NextStrand]_vars

\* Simulator.step asks for a path for agent a when the agent does not wait
\* and needs_rerouting holds: the draws of should_wait that make it so
RequestsPath(a, nd) ==
    LET d == Density(nd, a.current_node)
    IN  FALSE \in should_wait(a, d, 0) /\ needs_rerouting(a, d)

\* C26 (as stated): an entity in the simulation that has no path to its
\* goal requests a path again in the next tick, and in every following
\* tick while it has none.
C26_Original ==
    [][ret'.op = "step" =>
          \A i \in Live(agents) :
             (~agents[i].has_reached_goal /\ agents[i].path = <<>>)
                => RequestsPath(agents[i], TickView.nd)]_vars

----------------------------------------------------------------------------
(* Specification SpecPath: get_shortest_path is called for every pair of
   zone names while zones are being closed *)

\* The zone names given to get_shortest_path: the zones of the twin, and
\* a name that is no zone of the twin
PathZones == TwinNodes \cup {"nowhere"}

\* twin.get_shortest_path(start, end): the call and what it gives
GetShortestPath(start, end) ==
    /\ ret' = [op |-> "get_shortest_path",
               ok |-> ~get_shortest_path_raises(start, end),
               start |-> start, end |-> end,
               path |-> IF get_shortest_path_raises(start, end) THEN <<>>
                        ELSE get_shortest_path(node_data, start, end)]
    /\ UNCHANGED <<now, govVars, resVars, simVars, gateVars,
                   applied_actions>>

InitPath == InitSim(<<>>)

NextPath ==
    \/ \E n \in TwinNodes : \E d \in CloseDurations : CloseNode(n, d)
    \/ \E start \in PathZones, end \in PathZones : GetShortestPath(start, end)

SpecPath == InitPath /\ [][NextPath]_vars

\* The sequences of distinct zones in which each zone is joined to the next
SimplePaths ==
    {p \in UNION {[1..k -> TwinNodes] : k \in 1..Cardinality(TwinNodes)} :
        /\ \A i, j \in 1..Len(p) : i # j => p[i] # p[j]
        /\ \A i \in 1..(Len(p) - 1) : {p[i], p[i + 1]} \in Edges}

\* The paths from start to end none of whose intermediate zones is blocked
OpenPaths(nd, start, end) ==
    {p \in SimplePaths :
        /\ p[1] = start
        /\ p[Len(p)] = end
        /\ \A i \in 2..(Len(p) - 1) : ~nd[p[i]].is_blocked}

\* What the claim asks of the answer to the call recorded in ret
ShortestOpenPath ==
    LET open == OpenPaths(node_data, ret.start, ret.end)
    IN  /\ ret.ok
        /\ ret.path = <<>> <=> open = {}
        /\ ret.path # <<>> =>
              /\ ret.path \in open
              /\ \A p \in open : Len(ret.path) <= Len(p)

ShortestPathInGraph ==
    (/\ ret.op = "get_shortest_path"
     /\ ret.start \in TwinNodes
     /\ ret.end \in TwinNodes) => ShortestOpenPath

----------------------------------------------------------------------------
(* Specification SpecTrigger: triggers are created and propagated while
   two entities walk from gate_a and from the side zone to the exit *)

TriggerSchedule ==
    <<SpawnEvent(0, "gate_a", "exit"), SpawnEvent(0, "side", "exit")>>

\* The inputs of create_trigger: type, activation time, severity in
\* percent, and the duration drawn by random.uniform(15, 60)
TriggerTypes == {"explosion", "weather"}
TriggerTimes == {0, 2}
TriggerSeverities == {20, 80}
TriggerDurations == {15}

\* PanicPropagationConfig.max_propagation_depth as given by the caller
MaxDepths == {1, 2}

MaxTriggers == 1
TriggerHorizon == 3

\* The simulator objects given to propagate_panic: a Simulator, which has
\* no attribute digital_twin, and an object that has one
SimulatorKinds == BOOLEAN

InitTrigger == InitSim(TriggerSchedule)

NextTrigger ==
    \/ \E depth \in MaxDepths : Configure(depth)
    \/ \E type \in TriggerTypes, t \in TriggerTimes, s \in TriggerSeverities :
          \E d \in TriggerDurations :
             /\ Len(trigger_system.active_triggers) < MaxTriggers
             /\ CreateTrigger(Trigger(type, t, <<"gate_a", "nowhere">>, s, d))
    \/ \E k \in 1..MaxTriggers : \E has \in SimulatorKinds :
          PropagatePanic(k, has)
    \/ now < TriggerHorizon /\ Step(1)

SpecTrigger == InitTrigger /\ [][NextTrigger]_vars

\* The fewest hops from one of the zones to n (the graph is connected)
HopDistance(zones, n) ==
    LET lens == {Len(p) - 1 : p \in {q \in SimplePaths :
                                        q[1] \in zones /\ q[Len(q)] = n}}
    IN  CHOOSE h \in lens : \A g \in lens : h <= g

\* v times (1 - spread_rate) to the power h
RECURSIVE Decayed(_, _, _)
Decayed(v, rate, h) ==
    IF h = 0 THEN v ELSE Decayed((v * (100 - rate)) \div 100, rate, h - 1)

\* base panic times severity, in panic units
TriggerPanic(trigger) ==
    base_panic(trigger.trigger_type) * trigger.severity * 10

\* What the claim asks of the propagation recorded in ret: the value of
\* the formula for every zone within the depth whose value is not below
\* the floor, and nothing for a zone beyond the depth
FollowsFormula ==
    LET trigger == trigger_system.active_triggers[ret.id]
        cfg == trigger_system.propagation_config
        zones == Range(trigger.affected_zones) \cap TwinNodes
    IN  \A n \in TwinNodes :
           LET h == HopDistance(zones, n)
               v == Decayed(TriggerPanic(trigger), cfg.spread_rate, h)
           IN  /\ (h <= cfg.max_propagation_depth
                   /\ v >= cfg.min_panic_to_spread)
                     => ret.panic_by_node[n] = v
               /\ h > cfg.max_propagation_depth
                     => ret.panic_by_node[n] = 0

\* C28 (as stated): one propagation of a trigger gives every zone at hop
\* distance h within the maximum depth the value base panic x severity x
\* (1 - spread rate)^h, when that value is not below the floor, and gives
\* nothing to the zones beyond the maximum depth.
C28_Original ==
    ret.op = "propagate_panic" => FollowsFormula

\* The same for the propagations on a simulator object that has the
\* attribute digital_twin
FormulaWithTwin ==
    (ret.op = "propagate_panic" /\ ret.ok) => FollowsFormula

C30_Original ==
    [][ret'.op = "step" =>
          \A k \in 1..Len(get_active_triggers(trigger_system, now)) :
             LET trigger == get_active_triggers(trigger_system, now)[k]
             IN  \A n \in Range(trigger.affected_zones) \cap TwinNodes :
                    TriggerPanic(trigger)
                          >= trigger_system.propagation_config.min_panic_to_spread
                       => trigger_system'.node_panic_levels[n]
                             >= TriggerPanic(trigger)]_vars

----------------------------------------------------------------------------
(* Specification SpecWriters: the action handler, the capacity controller,
   the safety governor and the tick act on one simulation *)

\* The ticks followed
WritersHorizon == 3

InitWriters == InitSim(WalkSchedule)

NextWriters ==
    \/ \E d \in CloseDurations : CloseNode("gate_a", d)
    \/ \E d \in TickDurations : BlockZone("gate_a", d)
    \/ RestoreNode("gate_a")
    \/ \E n \in GovNodes : RoomToRecord /\ RecordIntervention(n)
    \/ now < WritersHorizon /\ Step(1)

SpecWriters == InitWriters /\ [][NextWriters]_vars

\* The calls on the spawn-rate and capacity controllers, on the simulator
\* clock and on the safety governor
ControllerOps ==
    {"block_zone", "restore", "expand_area", "increase_flow",
     "cap_update_time", "spawn_control", "update_time"}
ClockOps == {"step", "reset"}
GovernorOps == {"record", "rollback"}

\* C31 (as stated): the blocked flag of a zone of the graph is written by
\* the resource controllers only, the occupancy of a zone by the simulation
\* clock only, and the rollback stack by the safety governor only.
C31_Original ==
    [][/\ (\E n \in TwinNodes :
              node_data'[n].is_blocked # node_data[n].is_blocked)
          => ret'.op \in ControllerOps
       /\ (\E n \in TwinNodes :
              node_data'[n].current_count # node_data[n].current_count)
          => ret'.op \in ClockOps
       /\ rollback_stack' # rollback_stack
          => ret'.op \in GovernorOps]_vars

----------------------------------------------------------------------------
(* Specification SpecDensity: entities walk through a twin one of whose
   zones has the area 0, while a zone is closed and the simulation is
   reset *)

\* The twin of the scenario with the side zone given the area 0
FlatTwin == [InitTwin EXCEPT !["side"] = add_area(0)]

DensitySchedule ==
    <<SpawnEvent(0, "gate_b", "exit"), SpawnEvent(0, "gate_a", "hall"),
      SpawnEvent(1, "gate_a", "hall")>>

InitDensity == InitSimOn(FlatTwin, DensitySchedule)

NextDensity ==
    \/ RoomToStep(1) /\ Step(1)
    \/ \E d \in CloseDurations : CloseNode("hall", d)
    \/ agents # <<>> /\ Reset

SpecDensity == InitDensity /\ [][NextDensity]_vars

\* C33: in every reachable state the stored density of every zone is its
\* stored occupant count divided by its area, and 0 when the area is 0.
C33_DensityConsistent ==
    \A n \in TwinNodes :
       node_data[n].density =
          IF node_data[n].area_m2 = 0 THEN 0
          ELSE (node_data[n].current_count * 100) \div node_data[n].area_m2

\* After a tick the zone of area 0 is occupied, and so is a zone whose
\* density is positive
C33_Witness ==
    /\ ret.op = "step"
    /\ node_data["side"].current_count > 0
    /\ \E n \in TwinNodes :
          node_data[n].current_count > 0 /\ node_data[n].density > 0

----------------------------------------------------------------------------
(* DigitalTwin.get_state_snapshot: node_data.copy() copies the outer dict
   only, so each value of snapshot["nodes"] is the twin's own dict for the
   zone until the holder puts another dict under the key *)

\* _calculate_risk(density) = "DANGER", the risk_level update_node_count
\* stores beside the density
DangerDensity == 40

get_danger_zones(nd) == {n \in TwinNodes : nd[n].density >= DangerDensity}

\* The dict get_state_snapshot returns: every key of nodes bound to the
\* twin's dict for the zone (shared), the two rollups computed at the call
get_state_snapshot(nd) ==
    [nodes |-> [n \in TwinNodes |-> [shared |-> TRUE]],
     danger_count |-> Cardinality(get_danger_zones(nd)),
     max_density |-> MaxOf({0} \cup {nd[n].density : n \in TwinNodes})]

\* snapshot["nodes"][n] as the holder of snap reads it in a state where
\* the twin holds nd
SnapshotNode(snap, nd, n) ==
    IF snap.nodes[n].shared THEN nd[n] ELSE snap.nodes[n].data

\* snapshot = twin.get_state_snapshot(), kept by the caller
GetStateSnapshot ==
    /\ snapshot' = Some(get_state_snapshot(node_data))
    /\ ret' = Ret("get_state_snapshot", TRUE, 0, FALSE, "none")
    /\ UNCHANGED <<now, govVars, resVars, node_data, spawn_queue, agents,
                   stats, trigger_system, gateVars, applied_actions>>

\* snapshot["nodes"][n]["current_count"] = count by the holder
WriteSnapshot(n, count) ==
    /\ snapshot # NONE
    /\ IF snapshot[1].nodes[n].shared
       THEN /\ node_data' = [node_data EXCEPT ![n].current_count = count]
            /\ UNCHANGED snapshot
       ELSE /\ snapshot' =
                  Some([snapshot[1] EXCEPT
                           !.nodes[n].data.current_count = count])
            /\ UNCHANGED node_data
    /\ ret' = Ret("write_snapshot", TRUE, 0, FALSE, n)
    /\ UNCHANGED <<now, govVars, resVars, spawn_queue, agents, stats,
                   trigger_system, gateVars, applied_actions>>

\* snapshot["nodes"][n] = dict(snapshot["nodes"][n]) by the holder: the key
\* of the copied outer dict now holds a dict of the holder's own
PutSnapshot(n) ==
    /\ snapshot # NONE
    /\ snapshot' =
          Some([snapshot[1] EXCEPT
                   !.nodes[n] =
                       [shared |-> FALSE,
                        data |-> SnapshotNode(snapshot[1], node_data, n)]])
    /\ ret' = Ret("put_snapshot", TRUE, 0, FALSE, n)
    /\ UNCHANGED <<now, govVars, resVars, node_data, spawn_queue, agents,
                   stats, trigger_system, gateVars, applied_actions>>

SnapshotCounts == {2}

SnapshotHorizon == 2

InitSnapshot == InitSim(DensitySchedule)

NextSnapshot ==
    \/ GetStateSnapshot
    \/ \E c \in SnapshotCounts : WriteSnapshot("gate_a", c)
    \/ PutSnapshot("gate_a")
    \/ now < SnapshotHorizon /\ Step(1)

SpecSnapshot == InitSnapshot /\ [][NextSnapshot]_vars

HolderOps == {"get_state_snapshot", "write_snapshot", "put_snapshot"}

\* C32: a held snapshot is a copy: a call that is not the holder's leaves
\* every node value read through the snapshot as it was, and the holder's
\* writes into the snapshot leave the twin's node_data as it was
C32_Original ==
    [][/\ (snapshot # NONE /\ ret'.op \notin HolderOps) =>
              \A n \in TwinNodes :
                 SnapshotNode(snapshot'[1], node_data', n) =
                    SnapshotNode(snapshot[1], node_data, n)
       /\ ret'.op \in {"write_snapshot", "put_snapshot"} =>
              node_data' = node_data]_vars

----------------------------------------------------------------------------
(* assess_risk over its inputs, called as the code calls it *)

\* The context dict as assess_risk reads it: context.get(key, default)
RiskContext(context, priority) ==
    [density |-> IF context.density = NONE THEN 0 ELSE context.density[1],
     priority |-> IF priority = NoStr THEN "WARNING" ELSE priority,
     has_active_trigger |->
        IF context.has_active_trigger = NONE THEN FALSE
        ELSE context.has_active_trigger[1]]

InterventionActions ==
    {"THROTTLE_25", "THROTTLE_50", "CLOSE_INFLOW", "REROUTE", "NOOP"}

\* The calls of assess_risk: with the action alone, as should_auto_execute
\* and get_risk_explanation call it, or with the action the engine mapped
\* from the recommendation and the recommendation's action beside it, as
\* process_recommendation calls it
AssessCalls ==
    {[action |-> a, context |-> Context(d, g), priority |-> p,
      recommendation_action |-> NoStr] :
        a \in InterventionActions, d \in Densities, g \in TriggerStates,
        p \in RecPriorities}
    \cup
    {[action |->
         Engine_map_recommendation_action(r, Recommendation("gate_a", r, p)),
      context |-> Context(d, g), priority |-> p,
      recommendation_action |-> r] :
        r \in RecActions \ {NoStr}, d \in Densities, g \in TriggerStates,
        p \in RecPriorities}

InitAssess ==
    /\ now = 0
    /\ safety_constraints = DefaultConstraints
    /\ records = <<>>
    /\ intervention_history = <<>>
    /\ active_interventions = {}
    /\ rollback_stack = <<>>
    /\ violations = <<>>
    /\ spawn_states = [n \in Nodes |-> InitSpawnState]
    /\ node_data = InitTwin
    /\ spawn_queue = <<>>
    /\ agents = <<>>
    /\ stats = InitStats
    /\ trigger_system = InitTriggerSystem
    /\ snapshot = NONE
    /\ cap_states = [n \in Nodes |-> InitCapState]
    /\ edge_states = [k \in EdgeKeys |-> InitEdgeState]
    /\ execution_settings =
          [auto_execute_enabled |-> TRUE, disabled_nodes |-> {}]
    /\ pending_actions = <<>>
    /\ audit_log = <<>>
    /\ applied_actions = <<>>
    /\ request \in AssessCalls
    /\ ret = Ret("init", TRUE, 0, FALSE, "none")

\* risk_assessor.assess_risk(action, context, recommendation_action)
AssessRisk ==
    /\ ret' = [op |-> "assess_risk",
               risk |-> assess_risk(request.action,
                                    RiskContext(request.context,
                                                request.priority),
                                    request.recommendation_action)]
    /\ UNCHANGED <<now, govVars, resVars, simVars, gateVars, applied_actions>>

NextAssess == AssessRisk

SpecAssess == InitAssess /\ [][NextAssess]_vars

\* C34: the level assess_risk returns is High when a trigger is active,
\* and otherwise High for CLOSE_INFLOW, Medium for THROTTLE_50 (High above
\* density 5.0), Low for THROTTLE_25, and for REROUTE Low below density
\* 3.5 and Medium from there on
C34_Original ==
    ret.op = "assess_risk" =>
       LET ctx == RiskContext(request.context, request.priority)
           action == request.action
       IN  /\ ctx.has_active_trigger => ret.risk = "HIGH"
           /\ action = "CLOSE_INFLOW" => ret.risk = "HIGH"
           /\ (action = "THROTTLE_50" /\ ~ctx.has_active_trigger) =>
                 ret.risk = IF ctx.density > ExtremeDensity
                            THEN "HIGH" ELSE "MEDIUM"
           /\ (action = "THROTTLE_25" /\ ~ctx.has_active_trigger) =>
                 ret.risk = "LOW"
           /\ (action = "REROUTE" /\ ~ctx.has_active_trigger) =>
                 ret.risk = IF ctx.density < LOW_DENSITY_THRESHOLD
                            THEN "LOW" ELSE "MEDIUM"

----------------------------------------------------------------------------
(* The cap on active interventions over time *)

\* parameters["duration"] of the interventions recorded here, in seconds
EffectDuration == 2

NextExpire ==
    \/ CheckSafetyConstraints(FALSE)
    \/ \E n \in GovNodes : RoomToRecord /\ CheckedRecordIntervention(n)
    \/ ConfigureConstraints(NONE, NONE, Some(1), NONE, NONE)
    \/ \E id \in 1..MaxInterventions : CompleteIntervention(id)
    \/ \E n \in StepCounts : RoomToStep(n) /\ Step(n)

SpecExpire == Init /\ [][NextExpire]_vars

\* Every intervention still in active_interventions was applied at least
\* its duration ago
EffectsEnded ==
    \A id \in active_interventions :
       now >= records[id].applied_at + EffectDuration

\* C35: a non-manual proposal made when the effect of every recorded
\* intervention has ended is not rejected for max_active_interventions
C35_Original ==
    [][(ret'.op = "check" /\ ~ret'.manual /\ EffectsEnded)
          => ret'.kind # "max_active"]_vars

----------------------------------------------------------------------------
(* The slots of the pending queue *)

\* get_pending_actions: the items still awaiting a decision
AwaitingDecision ==
    {i \in 1..Len(pending_actions) : pending_actions[i].status = "PENDING"}

\* C36: process_recommendation answers QUEUE_FULL only when
\* max_pending_actions items are awaiting a decision
C36_Original ==
    (ret.op = "process" /\ ret.kind = "QUEUE_FULL")
    => Cardinality(AwaitingDecision) >= MaxPendingActions

\* C37: the risk level recorded in every queued item is the level
\* assess_risk gives the item's recorded action in its recorded context
C37_Original ==
    \A i \in 1..Len(pending_actions) :
       pending_actions[i].risk_level =
          assess_risk(pending_actions[i].action, pending_actions[i].context,
                      NoStr)

----------------------------------------------------------------------------
(* The state step() returns *)

\* The agents of get_simulation_state whose current_node is the zone
AgentsAt(n) == {i \in Live(agents) : agents[i].current_node = n}

\* C38: in the state step() returns, each zone's count is the number of
\* agents reported in the zone, and its density is that of the count
C38_Original ==
    ret.op = "step" =>
       \A n \in TwinNodes :
          /\ node_data[n].current_count = Cardinality(AgentsAt(n))
          /\ node_data[n].density =
                (IF node_data[n].area_m2 > 0
                 THEN (Cardinality(AgentsAt(n)) * 100) \div node_data[n].area_m2
                 ELSE 0)

----------------------------------------------------------------------------
(* Blocked zones of the CapacityController *)

\* C39: a registered zone that is marked blocked has current capacity 0
C39_Original ==
    \A n \in Nodes :
       cap_states[n].is_blocked => cap_states[n].current_capacity = 0

----------------------------------------------------------------------------
(* Two simulation handles on the module-level engines.  sim_1 is the
   simulator of the model; sim_2 is a second entry of active_simulations,
   created on the same venue and not stepped *)

SimulationIds == {"sim_1", "sim_2"}

\* active_simulations[simulation_id].current_time
CurrentTimeOf(simulation_id) == IF simulation_id = "sim_1" THEN now ELSE 0

\* POST /{simulation_id}/spawn-control: the handle gives the time only;
\* the state written is that of the one spawn_rate_controller
SpawnControlRoute(simulation_id, node_id, rate_multiplier, duration) ==
    /\ spawn_states' =
          [spawn_states EXCEPT
              ![node_id] = set_spawn_rate(@, rate_multiplier, duration,
                                          CurrentTimeOf(simulation_id))]
    /\ ret' = [op |-> "spawn_control", simulation_id |-> simulation_id,
               ok |-> TRUE]
    /\ UNCHANGED <<now, govVars, cap_states, edge_states, simVars, gateVars,
                   applied_actions>>

\* POST /{simulation_id}/safety/constraints with max_active_interventions
SafetyConstraintsRoute(simulation_id, mai) ==
    /\ safety_constraints' =
          [safety_constraints EXCEPT !.max_active_interventions = mai]
    /\ ret' = [op |-> "safety_constraints", simulation_id |-> simulation_id,
               ok |-> TRUE]
    /\ UNCHANGED <<now, records, intervention_history, active_interventions,
                   rollback_stack, violations, resVars, simVars, gateVars,
                   applied_actions>>

\* GET /{simulation_id}/spawn-control/{node_id}:
\* spawn_rate_controller.get_state(node_id)
get_spawn_control_state(simulation_id, node_id) == spawn_states[node_id]

\* GET /{simulation_id}/safety/status: the constraints of the status
get_safety_status(simulation_id) == safety_constraints

SharedHorizon == 2

SharedCaps == {1, 5}

NextShared ==
    \/ \E s \in SimulationIds, n \in Nodes, m \in TickMultipliers,
          d \in TickDurations : SpawnControlRoute(s, n, m, d)
    \/ \E s \in SimulationIds, c \in SharedCaps : SafetyConstraintsRoute(s, c)
    \/ now < SharedHorizon /\ Step(1)

SpecShared == Init /\ [][NextShared]_vars

HandleOps == {"spawn_control", "safety_constraints"}

\* C40: a call made through one simulation handle leaves what every other
\* handle reads (the spawn control state of each node, the safety
\* constraints its proposals are checked against) as it was
C40_Original ==
    [][\A s \in SimulationIds :
          (ret'.op \in HandleOps /\ ret'.simulation_id # s) =>
             /\ \A n \in Nodes :
                   get_spawn_control_state(s, n)' =
                      get_spawn_control_state(s, n)
             /\ get_safety_status(s)' = get_safety_status(s)]_vars

====
